---- MODULE Spec2Model ----
(***************************************************************************)
(* Model of the sintrade_bot conversation core: the per-user session       *)
(* store (session_store.py, models.py), the event handlers of the          *)
(* conversation state machine (handlers.py) and the content gateway with   *)
(* its shared cooldown (ai_content.py).                                    *)
(*                                                                         *)
(* app.py builds the Application without concurrent updates, so one update *)
(* is handled to completion before the next is taken: every handler is one *)
(* atomic action.  A handler that raises keeps the assignments it made     *)
(* before the raise and sends no reply.                                    *)
(***************************************************************************)
EXTENDS Integers, Sequences, FiniteSets, TLC

VARIABLES
    store,          \* SessionStore._sessions: user id -> UserSession, or Absent
    api_key,        \* whether OPENAI_API_KEY is set (fixed for the process)
    now,            \* time.time()
    suspend_until,  \* AIContentClient._suspend_until
    last_error,     \* AIContentClient._last_error
    last,           \* the last handled update: handler, user, reply, the list
                    \* kill reported, whether the user's stored session
                    \* changed, the gateway operation invoked, the network
                    \* calls made and the responses they received, whether
                    \* an exception left the handler; for an operation
                    \* called on its own, its arguments and returned value
    suspended_by,   \* history: the user whose request last wrote suspend_until
    quota_until,    \* history: t + 1800 of the last gated 429 insufficient_quota
    events          \* number of updates handled so far

vars == <<store, api_key, now, suspend_until, last_error, last, suspended_by,
          quota_until, events>>

----------------------------------------------------------------------------
(* Bounds of the model *)

MaxEvents == 4
MaxTime == 60
TickStep == 30

Users == {"u1", "u2"}

----------------------------------------------------------------------------
(* Program constants *)

AI_TOTAL_LESSONS == 100
AI_QUIZ_PER_LESSON == 50
CHUNK_SIZE == 25
COOLDOWN_TIMEOUT == 20
COOLDOWN_NETWORK == 60
COOLDOWN_AUTH == 300
COOLDOWN_QUOTA == 1800
COOLDOWN_RATE == 120
COOLDOWN_HTTP == 60

LEVEL_ORDER == <<"beginner", "intermediate", "advanced", "professional">>
SUPPORTED_LANGUAGES == {"ar", "en"}
OPTION_KEYS == <<"A", "B", "C", "D">>

None == [none |-> TRUE]

(* the element of a singleton {body : x \in {e}}: body for the value of e, *)
(* e evaluated once                                                        *)
Bind(S) == CHOOSE r \in S : TRUE

(* the ids of the curated lessons; a session's quiz_variant_history maps   *)
(* each to the signatures served (a missing dict entry is the empty set)   *)
STATIC_IDS == {"B1", "I1", "A1", "A2", "P1"}
Absent == [absent |-> TRUE]

----------------------------------------------------------------------------
(* models.py *)

UserSession(user_id) ==
    [user_id |-> user_id,
     level |-> "beginner",
     access |-> "free",
     focus |-> "both",
     language |-> "ar",
     assistant_mode |-> FALSE,
     completed_lessons |-> {},
     quiz_variant_history |-> [id \in STATIC_IDS |-> {}],
     ai_recent_lesson_titles |-> <<>>,
     ai_recent_quiz_prompts |-> <<>>,
     ai_lessons_completed |-> 0,
     ai_simulations_completed |-> 0,
     ai_challenges_completed |-> 0,
     pending_lesson |-> None,
     quiz_state |-> None,
     simulation_state |-> None,
     daily_challenge_state |-> None]

QuizState(lesson_id, questions, is_dynamic, level) ==
    [lesson_id |-> lesson_id,
     questions |-> questions,
     current_index |-> 0,
     score |-> 0,
     is_dynamic |-> is_dynamic,
     level |-> level]

SimulationState(scenario, context) ==
    [symbol |-> scenario.symbol,
     entry |-> scenario.entry,
     support |-> scenario.support,
     resistance |-> scenario.resistance,
     context |-> context,
     stage |-> "direction",
     direction |-> "",
     stop_loss |-> None,
     take_profit |-> None]

DailyChallengeState(challenge) ==
    [prompt |-> challenge.prompt,
     expected_keywords |-> challenge.expected_keywords]

----------------------------------------------------------------------------
(* session_store.py *)

(* a get that builds a new record on every access *)
StoreGetFresh(st, u) == [st EXCEPT ![u] = UserSession(u)]

StoreGet(st, u) ==
    IF st[u] = Absent THEN [st EXCEPT ![u] = UserSession(u)] ELSE st

(* a reset that keeps an existing record *)
StoreResetKeepsExisting(st, u) == StoreGet(st, u)

StoreReset(st, u) == [st EXCEPT ![u] = UserSession(u)]

(* handlers._get_session: the stored record, demoted to free access *)
GetSession(st, u) ==
    LET st1 == StoreGet(st, u)
    IN  IF st1[u].access = "premium"
        THEN [st1 EXCEPT ![u].access = "free"]
        ELSE st1

----------------------------------------------------------------------------
(* The upstream response to one POST, as ai_content.py tells its cases apart. *)
(*   kind     "timeout" | "transport" (httpx.HTTPError, or a body that is   *)
(*            not JSON) | "http"                                            *)
(*   status   the HTTP status                                               *)
(*   body     "nonobject" (a JSON list, string, number or null) | "object"  *)
(*   error    the body's "error" member: NoError (missing or not an object) *)
(*            or its code / type / message, NotStr when not a string        *)
(*   choices  "missing" (not a non-empty list) | "bad_item" (choices[0] is  *)
(*            not an object) | "bad_message" (message is not an object) |   *)
(*            "ok"                                                          *)
(*   content  the message text: "" | "garbage" (braces, not JSON) |         *)
(*            "plain" (no braces) | "object" | "array" |                    *)
(*            "object_nan_entry" (an object whose "entry" is NaN or "nan")  *)
(*            | "object_capital_keywords" (an object whose first two        *)
(*            "expected_keywords" begin with a capital)                     *)
(*   valid    whether the JSON object passes the caller's field validation  *)
(*   quiz     the answer keys of the usable questions of its "quiz" list    *)

NotStr == "<not a string>"
NoError == [is_dict |-> FALSE]
ErrorObj(code, type, message) ==
    [is_dict |-> TRUE, code |-> code, type |-> type, message |-> message]

Timeout == [kind |-> "timeout"]
Transport == [kind |-> "transport"]
HttpNonObject(status) == [kind |-> "http", status |-> status, body |-> "nonobject"]
HttpError(status, error) ==
    [kind |-> "http", status |-> status, body |-> "object", error |-> error]
HttpOk(choices, content, valid, quiz) ==
    [kind |-> "http", status |-> 200, body |-> "object", error |-> NoError,
     choices |-> choices, content |-> content, valid |-> valid, quiz |-> quiz]

HttpLabel(status) ==
    CASE status = 400 -> "http_400"
      [] status = 401 -> "http_401"
      [] status = 403 -> "http_403"
      [] status = 429 -> "http_429"
      [] status = 500 -> "http_500"
      [] OTHER -> "http_xxx"

(* str.strip().lower().replace(" ", "_") of the error messages in use *)
NormalizeMessage(message) ==
    CASE message = "Rate limit reached" -> "rate_limit_reached"
      [] message = " " -> ""
      [] OTHER -> message

(* str.strip() of the codes and types in use *)
Strip(text) ==
    CASE text = " " -> ""
      [] text = " insufficient_quota " -> "insufficient_quota"
      [] OTHER -> text

(* ai_content._extract_error_code, for an object body *)
ExtractErrorCode(error) ==
    IF ~error.is_dict THEN ""
    ELSE IF error.code # NotStr THEN Strip(error.code)
    ELSE IF error.type # NotStr THEN Strip(error.type)
    ELSE IF error.message # NotStr THEN NormalizeMessage(error.message)
    ELSE ""

(* ai_content._extract_content, for an object body whose members have the *)
(* shapes the function reads without raising                              *)
ExtractContent(resp) ==
    IF resp.choices = "missing" THEN "" ELSE resp.content

(* float("nan"): the float that is not a number, written as a value no    *)
(* decimal in use takes                                                   *)
NaN == 0 - 999999999

IsNaN(x) == x = NaN

(* the comparisons a < b and a <= b of floats: false when either is NaN *)
Less(a, b) == ~IsNaN(a) /\ ~IsNaN(b) /\ a < b

AtMost(a, b) == ~IsNaN(a) /\ ~IsNaN(b) /\ a <= b

(* the parsed JSON a request hands back: None, or the dict; entry is what  *)
(* float() makes of its "entry", in hundredths                             *)
(* the words the analyses and the keywords in use are made of *)
ANALYSIS_WORDS == <<"risk", "invalidation", "structure", "confirmation">>

Dict(empty, valid, quiz) ==
    [empty |-> empty, valid |-> valid, quiz |-> quiz, entry |-> 20000,
     expected_keywords |-> ANALYSIS_WORDS]

(* the payload's "expected_keywords" as the content spells them *)
WithKeywords(data, content) ==
    [data EXCEPT !.expected_keywords =
        IF content = "object_capital_keywords"
        THEN <<"Risk", "Invalidation", "structure", "confirmation">> ELSE @]

WithEntry(data, content) ==
    [data EXCEPT !.entry = IF content = "object_nan_entry" THEN NaN ELSE @]

Falsy(data) == data = None \/ data.empty

(* What one request does to the client: the value returned, the network   *)
(* calls made, the two fields afterwards, whether an exception left the    *)
(* function, whether suspend_until was assigned, and whether a gated       *)
(* request was answered 429 with insufficient_quota.  call names the       *)
(* public operation the request was made for ("" when none was invoked).   *)
Outcome(data, net, le, su, fault, wrote, quota) ==
    [data |-> data, net |-> net, last_error |-> le, suspend_until |-> su,
     fault |-> fault, wrote |-> wrote, quota |-> quota, call |-> ""]

(* a gate that is never closed *)
SuspendedNever(respect_suspend, t, su) == FALSE

(* the gate of _request_json (line 433) *)
Suspended(respect_suspend, t, su) == respect_suspend /\ t < su

(* the cooldown an HTTP status >= 400 sets, given the error code recorded *)
HttpCooldown(status, code) ==
    IF status \in {401, 403} THEN COOLDOWN_AUTH
    ELSE IF status = 429
         THEN IF code = "insufficient_quota" THEN COOLDOWN_QUOTA ELSE COOLDOWN_RATE
         ELSE COOLDOWN_HTTP

(* AIContentClient._request_json *)
RequestJson(resp, respect_suspend, t, su, le) ==
    IF Suspended(respect_suspend, t, su)
    THEN Outcome(None, 0, le, su, FALSE, FALSE, FALSE)
    ELSE IF resp.kind = "timeout"
    THEN Outcome(None, 1, "timeout",
                 IF respect_suspend THEN t + COOLDOWN_TIMEOUT ELSE su,
                 FALSE, respect_suspend, FALSE)
    ELSE IF resp.kind = "transport"
    THEN Outcome(None, 1, "network_error",
                 IF respect_suspend THEN t + COOLDOWN_NETWORK ELSE su,
                 FALSE, respect_suspend, FALSE)
    ELSE IF resp.body = "nonobject"
    THEN Outcome(None, 1, le, su, TRUE, FALSE, FALSE)
    ELSE IF resp.status >= 400
    THEN LET extracted == ExtractErrorCode(resp.error)
             code == IF extracted # "" THEN extracted ELSE HttpLabel(resp.status)
         IN  Outcome(None, 1, code,
                     IF respect_suspend
                     THEN t + HttpCooldown(resp.status, code) ELSE su,
                     FALSE, respect_suspend,
                     respect_suspend /\ resp.status = 429
                         /\ code = "insufficient_quota")
    ELSE IF resp.choices \in {"bad_item", "bad_message"}
    THEN Outcome(None, 1, le, su, TRUE, FALSE, FALSE)
    ELSE LET content == ExtractContent(resp)
         IN  IF content = ""
             THEN Outcome(None, 1, "empty_content", su, FALSE, FALSE, FALSE)
             ELSE IF content = "garbage"
             THEN Outcome(None, 1, "invalid_json", su, FALSE, FALSE, FALSE)
             ELSE IF content = "plain"
             THEN Outcome(Dict(TRUE, FALSE, <<>>), 1, "", su, FALSE, FALSE, FALSE)
             ELSE IF content = "array"
             THEN Outcome(Dict(FALSE, FALSE, resp.quiz), 1, "", su,
                          FALSE, FALSE, FALSE)
             ELSE Outcome(WithKeywords(
                              WithEntry(Dict(FALSE, resp.valid, resp.quiz),
                                        content), content),
                          1, "", su, FALSE, FALSE, FALSE)

(* AIContentClient._request_text: no suspension check, and every failure *)
(* writes the cooldown                                                   *)
RequestText(resp, t, su, le) ==
    IF resp.kind = "timeout"
    THEN Outcome(None, 1, "timeout", t + COOLDOWN_TIMEOUT, FALSE, TRUE, FALSE)
    ELSE IF resp.kind = "transport"
    THEN Outcome(None, 1, "network_error", t + COOLDOWN_NETWORK, FALSE, TRUE, FALSE)
    ELSE IF resp.body = "nonobject"
    THEN Outcome(None, 1, le, su, TRUE, FALSE, FALSE)
    ELSE IF resp.status >= 400
    THEN LET extracted == ExtractErrorCode(resp.error)
             code == IF extracted # "" THEN extracted ELSE HttpLabel(resp.status)
         IN  Outcome(None, 1, code, t + HttpCooldown(resp.status, code),
                     FALSE, TRUE, FALSE)
    ELSE IF resp.choices \in {"bad_item", "bad_message"}
    THEN Outcome(None, 1, le, su, TRUE, FALSE, FALSE)
    ELSE LET content == ExtractContent(resp)
         IN  IF content = ""
             THEN Outcome(None, 1, "empty_content", su, FALSE, FALSE, FALSE)
             ELSE Outcome([text |-> content], 1, "", su, FALSE, FALSE, FALSE)


----------------------------------------------------------------------------
(* The static content bank (content.py): curated lessons with their quiz   *)
(* banks, simulation scenarios and daily challenges.                       *)

QuizQuestion(prompt, options, answer, explanation) ==
    [prompt |-> prompt, options |-> options, answer |-> answer,
     explanation |-> explanation]

Lesson(lesson_id, level, title, quiz, premium_only) ==
    [lesson_id |-> lesson_id, level |-> level, title |-> title,
     quiz |-> quiz, premium_only |-> premium_only]

(* a prompt text: its source, its number there, the prompt style applied to *)
(* it (0 is the plain style) and the numeric suffix padding appends (0 for *)
(* none)                                                                   *)
Prompt(src, n, style, suffix) ==
    [src |-> src, n |-> n, style |-> style, suffix |-> suffix]

BankQuiz(lesson_id) ==
    << QuizQuestion(Prompt(lesson_id, 1, 0, 0), <<"a1", "b1", "c1", "d1">>, "B", "e1"),
       QuizQuestion(Prompt(lesson_id, 2, 0, 0), <<"a2", "b2", "c2", "d2">>, "D", "e2") >>

LESSONS ==
    << Lesson("B1", "beginner", "Risk first", BankQuiz("B1"), FALSE),
       Lesson("I1", "intermediate", "Structure", BankQuiz("I1"), FALSE),
       Lesson("A1", "advanced", "Frameworks intro", <<>>, FALSE),
       Lesson("A2", "advanced", "Frameworks", BankQuiz("A2"), TRUE),
       Lesson("P1", "professional", "Systems", BankQuiz("P1"), TRUE) >>

lessons_for_user(level, access) ==
    SelectSeq(LESSONS, LAMBDA l : l.level = level
                                  /\ (~l.premium_only \/ access = "premium"))

next_level(level) ==
    CASE level = "beginner" -> "intermediate"
      [] level = "intermediate" -> "advanced"
      [] level = "advanced" -> "professional"
      [] OTHER -> "none"

(* prices and percentages are decimals with two places, held as their     *)
(* number of hundredths                                                    *)
SIMULATION_SCENARIOS ==
    { [symbol |-> "BTCDZD", entry |-> 10000, support |-> 9500,
       resistance |-> 11000] }

DAILY_CHALLENGES ==
    { [prompt |-> "static challenge",
       expected_keywords |-> <<"risk", "invalidation", "structure", "confirmation">>] }

----------------------------------------------------------------------------
(* handlers.py: helpers *)

TailN(seq, n) ==
    IF Len(seq) <= n THEN seq ELSE SubSeq(seq, Len(seq) - n + 1, Len(seq))

(* a sync whose thresholds are passed one lesson late *)
SyncAiCurriculumLevelLate(s) ==
    [s EXCEPT !.level =
        IF s.ai_lessons_completed > 75 THEN "professional"
        ELSE IF s.ai_lessons_completed > 50 THEN "advanced"
        ELSE IF s.ai_lessons_completed > 25 THEN "intermediate"
        ELSE "beginner"]

(* _sync_ai_curriculum_level *)
SyncAiCurriculumLevel(s) ==
    [s EXCEPT !.level =
        IF s.ai_lessons_completed >= 75 THEN "professional"
        ELSE IF s.ai_lessons_completed >= 50 THEN "advanced"
        ELSE IF s.ai_lessons_completed >= 25 THEN "intermediate"
        ELSE "beginner"]

(* a kill that overlooks assistant mode *)
KillFlowsOnly(s) ==
    LET k1 == IF s.pending_lesson # None THEN <<"lesson">> ELSE <<>>
        k2 == IF s.quiz_state # None THEN Append(k1, "quiz") ELSE k1
        k3 == IF s.simulation_state # None THEN Append(k2, "simulation") ELSE k2
        k4 == IF s.daily_challenge_state # None
              THEN Append(k3, "daily challenge") ELSE k3
    IN  [session |-> [s EXCEPT !.pending_lesson = None,
                               !.quiz_state = None,
                               !.simulation_state = None,
                               !.daily_challenge_state = None],
         killed |-> k4]

(* _kill_active_states: the session afterwards and the list returned *)
KillActiveStates(s) ==
    LET k1 == IF s.pending_lesson # None THEN <<"lesson">> ELSE <<>>
        k2 == IF s.quiz_state # None THEN Append(k1, "quiz") ELSE k1
        k3 == IF s.simulation_state # None THEN Append(k2, "simulation") ELSE k2
        k4 == IF s.daily_challenge_state # None
              THEN Append(k3, "daily challenge") ELSE k3
        k5 == IF s.assistant_mode THEN Append(k4, "AI assistant") ELSE k4
    IN  [session |-> [s EXCEPT !.pending_lesson = None,
                               !.quiz_state = None,
                               !.simulation_state = None,
                               !.daily_challenge_state = None,
                               !.assistant_mode = FALSE],
         killed |-> k5]

(* _remember_ai_lesson_title *)
RememberAiLessonTitle(s, lesson) ==
    [s EXCEPT !.ai_recent_lesson_titles =
        TailN(Append(s.ai_recent_lesson_titles, lesson.title), 30)]

(* _remember_ai_quiz_prompts *)
RememberAiQuizPrompts(s, prompts) ==
    [s EXCEPT !.ai_recent_quiz_prompts =
        TailN(s.ai_recent_quiz_prompts \o prompts, 80)]


----------------------------------------------------------------------------
(* ai_content.py: the public operations.  Each returns the value handed to *)
(* the caller (None for "unavailable") and the Outcome of its requests.    *)

Generated(value, out) == [value |-> value, out |-> out]

Called(call, out) == [out EXCEPT !.call = call]

AI_OPTIONS == <<"ai a", "ai b", "ai c", "ai d">>

(* _parse_quiz over the usable items of a "quiz" list *)
ParseQuiz(quiz) ==
    [i \in 1..Len(quiz) |->
        QuizQuestion(Prompt("ai", i, 0, 0), AI_OPTIONS, quiz[i], "ai explanation")]

(* the ids f"AI-{uuid.uuid4().hex[:10]}" can take *)
AI_IDS == {"AI-1", "AI-2"}

(* _parse_lesson: every dict yields a Lesson, blank fields defaulted *)
ParseLesson(data, level, uuid) ==
    Lesson(uuid, level,
           IF data.valid THEN "generated title" ELSE "AI Lesson",
           ParseQuiz(data.quiz), FALSE)

(* _parse_simulation: None unless symbol and the three prices are usable *)
ParseSimulation(data) ==
    IF ~data.valid THEN None
    ELSE [symbol |-> "ETHDZD", entry |-> data.entry, support |-> 19000,
          resistance |-> 22000, context |-> "generated context"]

(* _parse_daily_challenge: None when the prompt is blank *)
ParseDailyChallenge(data) ==
    IF ~data.valid THEN None
    ELSE [prompt |-> "generated challenge",
          expected_keywords |-> data.expected_keywords]

(* AIContentClient.status_label at time t: the language of the text, and  *)
(* whether it says unlimited or temporarily unavailable with a code        *)
status_label(language, t, su, le) ==
    IF t < su /\ le # ""
    THEN [lang |-> IF language = "en" THEN "en" ELSE "ar",
          available |-> FALSE, code |-> le]
    ELSE [lang |-> IF language = "en" THEN "en" ELSE "ar",
          available |-> TRUE, code |-> ""]

(* AIContentClient.generate_lesson *)
GenerateLesson(resp, level, uuid, t, su, le) ==
    LET out == RequestJson(resp, TRUE, t, su, le)
    IN  Generated(IF Falsy(out.data) THEN None
                  ELSE ParseLesson(out.data, level, uuid),
                  Called("generate_lesson", out))

(* AIContentClient.generate_simulation *)
GenerateSimulation(resp, t, su, le) ==
    LET out == RequestJson(resp, TRUE, t, su, le)
    IN  Generated(IF Falsy(out.data) THEN None ELSE ParseSimulation(out.data),
                  Called("generate_simulation", out))

(* AIContentClient.generate_daily_challenge *)
GenerateDailyChallenge(resp, t, su, le) ==
    LET out == RequestJson(resp, TRUE, t, su, le)
    IN  Generated(IF Falsy(out.data) THEN None
                  ELSE ParseDailyChallenge(out.data),
                  Called("generate_daily_challenge", out))

(* AIContentClient.answer_question *)
AnswerQuestion(resp, t, su, le) ==
    LET out == RequestText(resp, t, su, le)
    IN  Generated(out.data, Called("answer_question", out))

(* _fallback_quiz *)
FallbackQuiz ==
    << QuizQuestion(Prompt("fallback", 1, 0, 0), <<"f1a", "f1b", "f1c", "f1d">>,
                    "A", "fe1"),
       QuizQuestion(Prompt("fallback", 2, 0, 0), <<"f2a", "f2b", "f2c", "f2d">>,
                    "B", "fe2") >>

(* _ensure_quiz_count: the quiz cut to count, or padded to it with the    *)
(* fallback questions in rotation, the k-th padded prompt suffixed with   *)
(* its position in the list                                               *)
EnsureQuizCount(quiz, count) ==
    IF count <= 0 THEN <<>>
    ELSE IF Len(quiz) >= count THEN SubSeq(quiz, 1, count)
    ELSE [i \in 1..count |->
            IF i <= Len(quiz) THEN quiz[i]
            ELSE LET index == i - Len(quiz) - 1
                     base == FallbackQuiz[(index % Len(FallbackQuiz)) + 1]
                 IN  QuizQuestion([base.prompt EXCEPT !.suffix = i],
                                  base.options, base.answer, base.explanation)]

Min(a, b) == IF a < b THEN a ELSE b

(* generate_lesson_quiz_pack._fetch_chunk: the cooldown is neither read nor *)
(* written (respect_suspend=False)                                         *)
FetchChunk(resp, chunk_target, t, su, le) ==
    LET out == RequestJson(resp, FALSE, t, su, le)
    IN  Generated(IF Falsy(out.data) THEN <<>>
                  ELSE SubSeq(ParseQuiz(out.data.quiz), 1,
                              Min(chunk_target, Len(out.data.quiz))),
                  out)

(* the loop of generate_lesson_quiz_pack over the chunks, in order; a chunk *)
(* that raises ends the loop and the operation                             *)
RECURSIVE FetchChunks(_, _, _, _, _, _, _, _)
FetchChunks(resps, chunk_index, total_chunks, quiz_count, merged, net, t, gw) ==
    IF chunk_index >= total_chunks
    THEN Generated(merged, Outcome(None, net, gw.le, gw.su, FALSE, FALSE, FALSE))
    ELSE LET start == chunk_index * CHUNK_SIZE
             target == Min(CHUNK_SIZE, quiz_count - start)
         IN  Bind({(IF got.out.fault
                    THEN Generated(merged,
                                   Outcome(None, net + got.out.net,
                                           got.out.last_error,
                                           got.out.suspend_until, TRUE, FALSE,
                                           FALSE))
                    ELSE Bind({(FetchChunks(resps, chunk_index + 1, total_chunks,
                                            quiz_count, extended,
                                            net + got.out.net, t,
                                            [su |-> got.out.suspend_until,
                                             le |-> got.out.last_error]))
                               : extended \in
                                 {merged \o got.value}}))
                   : got \in
                     {FetchChunk(resps[chunk_index + 1], target, t, gw.su, gw.le)}})

(* AIContentClient.generate_lesson_quiz_pack *)
GenerateLessonQuizPack(resps, quiz_count, t, su, le) ==
    IF quiz_count <= 0
    THEN Generated(<<>>, Outcome(None, 0, le, su, FALSE, FALSE, FALSE))
    ELSE LET total_chunks == (quiz_count + CHUNK_SIZE - 1) \div CHUNK_SIZE
         IN  Bind({(LET out == Called("generate_lesson_quiz_pack", fetched.out)
                    IN  IF out.fault THEN Generated(fetched.value, out)
                        ELSE Generated(EnsureQuizCount(fetched.value, quiz_count),
                                       out))
                   : fetched \in
                     {FetchChunks(resps, 0, total_chunks, quiz_count, <<>>, 0, t,
                              [su |-> su, le |-> le])}})


----------------------------------------------------------------------------
(* quiz_generator.py.  The random module's draws are an input: the target  *)
(* size, and for each attempt the base question, the prompt style and the  *)
(* option order drawn; after the listed attempts every further attempt     *)
(* draws `rest`, but for the first attempts of the second loop (which      *)
(* starts after MAX_ATTEMPTS attempts), which draw `refill`.               *)

PROMPT_STYLES == 7
MAX_ATTEMPTS == 300

Draw(base, style, order) == [base |-> base, style |-> style, order |-> order]
Stream(prefix, rest) == [prefix |-> prefix, rest |-> rest, refill |-> <<>>]
Refilled(stream, refill) == [stream EXCEPT !.refill = refill]
DrawAt(stream, attempt) ==
    IF attempt <= Len(stream.prefix) THEN stream.prefix[attempt]
    ELSE IF attempt > MAX_ATTEMPTS /\ attempt - MAX_ATTEMPTS <= Len(stream.refill)
    THEN stream.refill[attempt - MAX_ATTEMPTS]
    ELSE stream.rest

KeyIndex(key) == CHOOSE i \in 1..4 : OPTION_KEYS[i] = key

(* a shuffle that moves the texts but keeps the answer key *)
ShuffleKeepsAnswerKey(question, order) ==
    QuizQuestion(question.prompt, [i \in 1..4 |-> question.options[order[i]]],
                 question.answer, question.explanation)

(* _shuffle_options_with_order: order[i] is the 1-based source slot shown *)
(* under OPTION_KEYS[i]; the answer is the last slot holding the correct  *)
(* text, "A" when none does                                               *)
ShuffleOptionsWithOrder(question, order) ==
    LET correct_text == question.options[KeyIndex(question.answer)]
        remapped == [i \in 1..4 |-> question.options[order[i]]]
        hits == {i \in 1..4 : remapped[i] = correct_text}
        new_answer == IF hits = {} THEN "A"
                      ELSE OPTION_KEYS[CHOOSE i \in hits : \A j \in hits : j <= i]
    IN  QuizQuestion(question.prompt, remapped, new_answer, question.explanation)

(* _signature_from_parts *)
SignatureFromParts(lesson_id, base_prompt, style_index, option_order) ==
    [lesson |-> lesson_id, prompt |-> base_prompt, style |-> style_index,
     order |-> option_order]

(* _build_variant_question *)
BuildVariantQuestion(base, lesson, draw) ==
    LET shuffled == ShuffleOptionsWithOrder(base, draw.order)
    IN  [question |-> QuizQuestion([base.prompt EXCEPT !.style = draw.style],
                                   shuffled.options, shuffled.answer,
                                   base.explanation),
         signature |-> SignatureFromParts(lesson.lesson_id, base.prompt,
                                          draw.style, draw.order)]

(* the loop state after an attempt that emitted nothing (continue).  Past  *)
(* the draws listed for the loop every attempt draws the same, so an       *)
(* attempt that emits nothing is repeated unchanged until the loop's       *)
(* limit: the state the loop ends in is given at once.                     *)
Skipped(st, attempts, listed, limit) ==
    [st EXCEPT !.attempts = IF attempts > listed THEN limit ELSE attempts]

(* the first loop of build_random_quiz_for_lesson *)
RECURSIVE FreshLoop(_, _, _, _, _)
FreshLoop(lesson, history, target, stream, st) ==
    IF ~(Len(st.generated) < target /\ st.attempts < MAX_ATTEMPTS) THEN st
    ELSE LET attempts == st.attempts + 1
             draw == DrawAt(stream, attempts)
             base == lesson.quiz[draw.base]
             v == BuildVariantQuestion(base, lesson, draw)
         IN  Bind({(FreshLoop(lesson, history, target, stream, next))
                   : next \in
                     {IF Cardinality(st.used) < Len(lesson.quiz)
                     /\ base.prompt \in st.used
                  THEN Skipped(st, attempts, Len(stream.prefix), MAX_ATTEMPTS)
                  ELSE IF v.signature \in history \/ v.signature \in st.signatures
                  THEN Skipped(st, attempts, Len(stream.prefix), MAX_ATTEMPTS)
                  ELSE [attempts |-> attempts,
                        generated |-> Append(st.generated, v.question),
                        signatures |-> st.signatures \cup {v.signature},
                        used |-> st.used \cup {base.prompt}]}})

(* a second loop that makes no attempt *)
RefillLoopSkipped(lesson, target, stream, st) == st

(* the second loop, entered after history.clear() *)
RECURSIVE RefillLoop(_, _, _, _)
RefillLoop(lesson, target, stream, st) ==
    IF ~(Len(st.generated) < target /\ st.attempts < MAX_ATTEMPTS * 2) THEN st
    ELSE LET attempts == st.attempts + 1
             draw == DrawAt(stream, attempts)
             v == BuildVariantQuestion(lesson.quiz[draw.base], lesson, draw)
         IN  Bind({(RefillLoop(lesson, target, stream, next))
                   : next \in
                     {IF v.signature \in st.signatures
                  THEN Skipped(st, attempts, MAX_ATTEMPTS + Len(stream.refill),
                               MAX_ATTEMPTS * 2)
                  ELSE [st EXCEPT !.attempts = attempts,
                                  !.generated = Append(@, v.question),
                                  !.signatures = @ \cup {v.signature}]}})

(* build_random_quiz_for_lesson, for a lesson with a non-empty bank: the   *)
(* questions returned, the lesson's history afterwards, the attempts made  *)
(* and whether the history was cleared.  With a non-empty bank the refill  *)
(* loop always emits a question, so the final deterministic fallback of    *)
(* the function is not entered.                                            *)
BuildRandomQuizForLesson(lesson, history, target, stream) ==
    Bind({(LET cleared == Len(first.generated) < target
           IN  Bind({([questions |-> SubSeq(final.generated, 1,
                                            Min(target, Len(final.generated))),
                       history |-> (IF cleared THEN {} ELSE history)
                                   \cup final.signatures,
                       attempts |-> final.attempts,
                       cleared |-> cleared])
                     : final \in
                       {IF cleared THEN RefillLoop(lesson, target, stream, first)
                    ELSE first}}))
          : first \in
            {FreshLoop(lesson, history, target, stream,
                   [attempts |-> 0, generated |-> <<>>, signatures |-> {},
                    used |-> {}])}})


----------------------------------------------------------------------------
(* handlers.py: what one handler does to the caller's session (already     *)
(* fetched by _get_session) and to the gateway, and the reply it sends.    *)
(* reply "" stands for a handler left by an exception, "none" for one that *)
(* returns without replying.                                               *)

NoCall(su, le) == Outcome(None, 0, le, su, FALSE, FALSE, FALSE)

Handled(session, out, reply, killed) ==
    [session |-> session, out |-> out, reply |-> reply, killed |-> killed,
     value |-> None]

(* a reply whose text is built from computed values *)
WithValue(handled, value) == [handled EXCEPT !.value = value]

StartsWithAI(lesson_id) == lesson_id \in AI_IDS

(* askme_command *)
AskmeCommand(s, su, le) ==
    Handled([s EXCEPT !.assistant_mode = TRUE], NoCall(su, le), "ask_me", <<>>)

(* button_callback_handler, CB_ACTION_ASKME_QUIT *)
AskmeQuit(s, su, le) ==
    Handled([s EXCEPT !.assistant_mode = FALSE], NoCall(su, le), "chat_ended", <<>>)

(* kill_command *)
KillCommand(s, su, le) ==
    LET k == KillActiveStates(s)
    IN  Handled(k.session, NoCall(su, le),
                IF k.killed = <<>> THEN "nothing_active" ELSE "cancelled", k.killed)

(* lesson_command, from the built-in curriculum on (lines 894-936) *)
StaticLesson(s, out) ==
    LET available == lessons_for_user(s.level, s.access)
        open == SelectSeq(available,
                          LAMBDA l : l.lesson_id \notin s.completed_lessons)
        next_lvl == next_level(s.level)
    IN  IF Len(available) = 0 THEN Handled(s, out, "premium_lock", <<>>)
        ELSE IF Len(open) > 0
        THEN Handled([s EXCEPT !.pending_lesson = open[1]], out, "lesson", <<>>)
        ELSE IF s.level = "advanced" /\ s.access = "free"
        THEN Handled(s, out, "advanced_intro_done", <<>>)
        ELSE IF next_lvl = "none" THEN Handled(s, out, "all_lessons_done", <<>>)
        ELSE IF next_lvl = "professional" /\ s.access = "free"
        THEN Handled(s, out, "professional_premium_only", <<>>)
        ELSE Handled([s EXCEPT !.level = next_lvl], out, "level_unlocked", <<>>)

(* a lesson request that does not look at the curriculum cap *)
LessonCommandUncapped(s0, api, resp, uuid, t, su, le) ==
    LET s == SyncAiCurriculumLevel([s0 EXCEPT !.assistant_mode = FALSE])
    IN  IF s.pending_lesson # None
        THEN Handled(s, NoCall(su, le), "lesson_already_open", <<>>)
        ELSE IF s.quiz_state # None
        THEN Handled(s, NoCall(su, le), "quiz_active", <<>>)
        ELSE IF ~api THEN StaticLesson(s, NoCall(su, le))
        ELSE LET g == GenerateLesson(resp, s.level, uuid, t, su, le)
             IN  IF g.out.fault THEN Handled(s, g.out, "", <<>>)
                 ELSE IF g.value # None
                 THEN Handled([RememberAiLessonTitle(s, g.value)
                                  EXCEPT !.pending_lesson = g.value],
                              g.out, "lesson", <<>>)
                 ELSE StaticLesson(s, g.out)

(* a lesson request that does not look at quiz_state *)
LessonCommandDuringQuiz(s0, api, resp, uuid, t, su, le) ==
    LET s == [s0 EXCEPT !.assistant_mode = FALSE]
    IN  IF s.pending_lesson # None
        THEN Handled(s, NoCall(su, le), "lesson_already_open", <<>>)
        ELSE IF ~api THEN StaticLesson(s, NoCall(su, le))
        ELSE LET g == GenerateLesson(resp, s.level, uuid, t, su, le)
             IN  IF g.value # None
                 THEN Handled([s EXCEPT !.pending_lesson = g.value],
                              g.out, "lesson", <<>>)
                 ELSE StaticLesson(s, g.out)

(* lesson_command *)
LessonCommand(s0, api, resp, uuid, t, su, le) ==
    LET s == SyncAiCurriculumLevel([s0 EXCEPT !.assistant_mode = FALSE])
    IN  IF s.pending_lesson # None
        THEN Handled(s, NoCall(su, le), "lesson_already_open", <<>>)
        ELSE IF s.quiz_state # None
        THEN Handled(s, NoCall(su, le), "quiz_active", <<>>)
        ELSE IF ~api THEN StaticLesson(s, NoCall(su, le))
        ELSE IF s.ai_lessons_completed >= AI_TOTAL_LESSONS
        THEN Handled(s, NoCall(su, le), "ai_curriculum_done", <<>>)
        ELSE LET g == GenerateLesson(resp, s.level, uuid, t, su, le)
             IN  IF g.out.fault THEN Handled(s, g.out, "", <<>>)
                 ELSE IF g.value # None
                 THEN Handled([RememberAiLessonTitle(s, g.value)
                                  EXCEPT !.pending_lesson = g.value],
                              g.out, "lesson", <<>>)
                 ELSE StaticLesson(s, g.out)

(* a completion that starts the quiz with the lesson still pending *)
CompletePendingLessonKeepsLesson(s, lesson_id, api, resps, target, stream, t, su, le) ==
    IF s.pending_lesson = None
    THEN Handled(s, NoCall(su, le), "no_active_lesson", <<>>)
    ELSE IF lesson_id # "" /\ s.pending_lesson.lesson_id # lesson_id
    THEN Handled(s, NoCall(su, le), "lesson_not_active", <<>>)
    ELSE
    LET lesson == s.pending_lesson
        s1 == s
        is_dynamic == StartsWithAI(lesson.lesson_id)
        start(ss, questions, out) ==
            Handled([ss EXCEPT !.quiz_state =
                        QuizState(lesson.lesson_id, questions, is_dynamic,
                                  lesson.level)],
                    out, "quiz_question", <<>>)
    IN  IF is_dynamic
        THEN Bind({(LET s2 == IF pack.value # <<>>
                              THEN RememberAiQuizPrompts(s1,
                                       [i \in 1..Len(pack.value) |->
                                           pack.value[i].prompt])
                              ELSE s1
                        questions ==
                            IF pack.value = <<>> /\ lesson.quiz # <<>>
                            THEN SubSeq(lesson.quiz, 1,
                                        Min(AI_QUIZ_PER_LESSON, Len(lesson.quiz)))
                            ELSE pack.value
                    IN  IF pack.out.fault THEN Handled(s1, pack.out, "", <<>>)
                        ELSE IF questions = <<>>
                        THEN Handled([s2 EXCEPT !.ai_lessons_completed = @ + 1],
                                     pack.out, "completed_without_quiz", <<>>)
                        ELSE start(s2, questions, pack.out))
                   : pack \in
                     {IF api
                  THEN GenerateLessonQuizPack(resps, AI_QUIZ_PER_LESSON, t, su, le)
                  ELSE Generated(<<>>, NoCall(su, le))}})
        ELSE IF lesson.quiz = <<>>
        THEN Handled([s1 EXCEPT !.completed_lessons = @ \cup {lesson.lesson_id}],
                     NoCall(su, le), "lesson_completed", <<>>)
        ELSE Bind({(start([s1 EXCEPT !.quiz_variant_history[lesson.lesson_id] =
                                         built.history],
                          built.questions, NoCall(su, le)))
                   : built \in
                     {BuildRandomQuizForLesson(
                      lesson, s1.quiz_variant_history[lesson.lesson_id], target,
                      stream)}})

(* _complete_pending_lesson *)
CompletePendingLesson(s, lesson_id, api, resps, target, stream, t, su, le) ==
    IF s.pending_lesson = None
    THEN Handled(s, NoCall(su, le), "no_active_lesson", <<>>)
    ELSE IF lesson_id # "" /\ s.pending_lesson.lesson_id # lesson_id
    THEN Handled(s, NoCall(su, le), "lesson_not_active", <<>>)
    ELSE
    LET lesson == s.pending_lesson
        s1 == [s EXCEPT !.pending_lesson = None]
        is_dynamic == StartsWithAI(lesson.lesson_id)
        start(ss, questions, out) ==
            Handled([ss EXCEPT !.quiz_state =
                        QuizState(lesson.lesson_id, questions, is_dynamic,
                                  lesson.level)],
                    out, "quiz_question", <<>>)
    IN  IF is_dynamic
        THEN Bind({(LET s2 == IF pack.value # <<>>
                              THEN RememberAiQuizPrompts(s1,
                                       [i \in 1..Len(pack.value) |->
                                           pack.value[i].prompt])
                              ELSE s1
                        questions ==
                            IF pack.value = <<>> /\ lesson.quiz # <<>>
                            THEN SubSeq(lesson.quiz, 1,
                                        Min(AI_QUIZ_PER_LESSON, Len(lesson.quiz)))
                            ELSE pack.value
                    IN  IF pack.out.fault THEN Handled(s1, pack.out, "", <<>>)
                        ELSE IF questions = <<>>
                        THEN Handled([s2 EXCEPT !.ai_lessons_completed = @ + 1],
                                     pack.out, "completed_without_quiz", <<>>)
                        ELSE start(s2, questions, pack.out))
                   : pack \in
                     {IF api
                  THEN GenerateLessonQuizPack(resps, AI_QUIZ_PER_LESSON, t, su, le)
                  ELSE Generated(<<>>, NoCall(su, le))}})
        ELSE IF lesson.quiz = <<>>
        THEN Handled([s1 EXCEPT !.completed_lessons = @ \cup {lesson.lesson_id}],
                     NoCall(su, le), "lesson_completed", <<>>)
        ELSE Bind({(start([s1 EXCEPT !.quiz_variant_history[lesson.lesson_id] =
                                         built.history],
                          built.questions, NoCall(su, le)))
                   : built \in
                     {BuildRandomQuizForLesson(
                      lesson, s1.quiz_variant_history[lesson.lesson_id], target,
                      stream)}})

(* an evaluation that moves two questions on *)
EvaluateQuizOptionSkips(s, option, su, le) ==
    IF s.quiz_state = None
    THEN Handled(s, NoCall(su, le), "no_active_quiz", <<>>)
    ELSE IF option \notin {"A", "B", "C", "D"}
    THEN Handled(s, NoCall(su, le), "choose_one_option", <<>>)
    ELSE
    LET q0 == s.quiz_state
        question == q0.questions[q0.current_index + 1]
        q == [q0 EXCEPT !.score = IF option = question.answer THEN @ + 1 ELSE @,
                        !.current_index = @ + 2]
    IN  IF q.current_index < Len(q.questions)
        THEN Handled([s EXCEPT !.quiz_state = q], NoCall(su, le),
                     "quiz_question", <<>>)
        ELSE
        LET completed_level == IF q.level # "" THEN q.level ELSE s.level
            s1 == IF q.is_dynamic
                  THEN SyncAiCurriculumLevel(
                           [s EXCEPT !.ai_lessons_completed = @ + 1])
                  ELSE [s EXCEPT !.completed_lessons = @ \cup {q.lesson_id}]
            s2 == [s1 EXCEPT !.quiz_state = None]
            available == lessons_for_user(completed_level, s2.access)
            completed == Len(SelectSeq(available,
                             LAMBDA l : l.lesson_id \in s2.completed_lessons))
            nxt == next_level(s2.level)
        IN  IF q.is_dynamic
            THEN Handled(s2, NoCall(su, le), "ai_quiz_finished", <<>>)
            ELSE IF completed = Len(available)
                    /\ ~(s2.level = "advanced" /\ s2.access = "free")
                    /\ nxt # "none"
                    /\ ~(nxt = "professional" /\ s2.access = "free")
            THEN Handled([s2 EXCEPT !.level = nxt], NoCall(su, le),
                         "quiz_finished_level_unlocked", <<>>)
            ELSE Handled(s2, NoCall(su, le), "quiz_finished", <<>>)

(* an evaluation that gives the point whatever the option *)
EvaluateQuizOptionAnyScores(s, option, su, le) ==
    IF s.quiz_state = None
    THEN Handled(s, NoCall(su, le), "no_active_quiz", <<>>)
    ELSE IF option \notin {"A", "B", "C", "D"}
    THEN Handled(s, NoCall(su, le), "choose_one_option", <<>>)
    ELSE IF s.quiz_state.current_index + 1 < Len(s.quiz_state.questions)
    THEN Handled([s EXCEPT !.quiz_state.score = @ + 1,
                           !.quiz_state.current_index = @ + 1],
                 NoCall(su, le), "quiz_question", <<>>)
    ELSE Handled([s EXCEPT !.quiz_state = None], NoCall(su, le),
                 "quiz_finished", <<>>)

(* _evaluate_quiz_option *)
EvaluateQuizOption(s, option, su, le) ==
    IF s.quiz_state = None
    THEN Handled(s, NoCall(su, le), "no_active_quiz", <<>>)
    ELSE IF option \notin {"A", "B", "C", "D"}
    THEN Handled(s, NoCall(su, le), "choose_one_option", <<>>)
    ELSE
    LET q0 == s.quiz_state
        question == q0.questions[q0.current_index + 1]
        q == [q0 EXCEPT !.score = IF option = question.answer THEN @ + 1 ELSE @,
                        !.current_index = @ + 1]
    IN  IF q.current_index < Len(q.questions)
        THEN Handled([s EXCEPT !.quiz_state = q], NoCall(su, le),
                     "quiz_question", <<>>)
        ELSE
        LET completed_level == IF q.level # "" THEN q.level ELSE s.level
            s1 == IF q.is_dynamic
                  THEN SyncAiCurriculumLevel(
                           [s EXCEPT !.ai_lessons_completed = @ + 1])
                  ELSE [s EXCEPT !.completed_lessons = @ \cup {q.lesson_id}]
            s2 == [s1 EXCEPT !.quiz_state = None]
            available == lessons_for_user(completed_level, s2.access)
            completed == Len(SelectSeq(available,
                             LAMBDA l : l.lesson_id \in s2.completed_lessons))
            nxt == next_level(s2.level)
        IN  IF q.is_dynamic
            THEN Handled(s2, NoCall(su, le), "ai_quiz_finished", <<>>)
            ELSE IF completed = Len(available)
                    /\ ~(s2.level = "advanced" /\ s2.access = "free")
                    /\ nxt # "none"
                    /\ ~(nxt = "professional" /\ s2.access = "free")
            THEN Handled([s2 EXCEPT !.level = nxt], NoCall(su, le),
                         "quiz_finished_level_unlocked", <<>>)
            ELSE Handled(s2, NoCall(su, le), "quiz_finished", <<>>)


(* a simulation request that leaves assistant mode on when it refuses *)
SimulateCommandKeepsMode(s0, api, resp, pick, t, su, le) ==
    LET s == [s0 EXCEPT !.assistant_mode = FALSE]
    IN  IF s0.simulation_state # None
        THEN Handled(s0, NoCall(su, le), "simulation_already_active", <<>>)
        ELSE LET g == IF api THEN GenerateSimulation(resp, t, su, le)
                      ELSE Generated(None, NoCall(su, le))
                 state == IF g.value = None THEN SimulationState(pick, "")
                          ELSE SimulationState(g.value, g.value.context)
             IN  IF g.out.fault THEN Handled(s, g.out, "", <<>>)
                 ELSE Handled([s EXCEPT !.simulation_state = state], g.out,
                              "simulation_question_1", <<>>)

(* simulate_command; pick is random.choice(SIMULATION_SCENARIOS) *)
SimulateCommand(s0, api, resp, pick, t, su, le) ==
    LET s == [s0 EXCEPT !.assistant_mode = FALSE]
    IN  IF s.simulation_state # None
        THEN Handled(s, NoCall(su, le), "simulation_already_active", <<>>)
        ELSE LET g == IF api THEN GenerateSimulation(resp, t, su, le)
                      ELSE Generated(None, NoCall(su, le))
                 state == IF g.value = None THEN SimulationState(pick, "")
                          ELSE SimulationState(g.value, g.value.context)
             IN  IF g.out.fault THEN Handled(s, g.out, "", <<>>)
                 ELSE Handled([s EXCEPT !.simulation_state = state], g.out,
                              "simulation_question_1", <<>>)

(* daily_challenge_command; pick is random.choice(DAILY_CHALLENGES) *)
DailyChallengeCommand(s0, api, resp, pick, t, su, le) ==
    LET s == [s0 EXCEPT !.assistant_mode = FALSE]
        g == IF api THEN GenerateDailyChallenge(resp, t, su, le)
             ELSE Generated(None, NoCall(su, le))
        challenge == IF g.value = None THEN pick ELSE g.value
    IN  IF g.out.fault THEN Handled(s, g.out, "", <<>>)
        ELSE Handled([s EXCEPT !.daily_challenge_state =
                         DailyChallengeState(challenge)],
                     g.out, "daily_challenge", <<>>)

(* a direction taken without telling long and short from anything else *)
SetSimulationDirectionUnchecked(s, direction, su, le) ==
    IF s.simulation_state = None
    THEN Handled(s, NoCall(su, le), "no_active_simulation", <<>>)
    ELSE IF s.simulation_state.stage # "direction"
    THEN Handled(s, NoCall(su, le), "direction_already_set", <<>>)
    ELSE Handled([s EXCEPT !.simulation_state.direction = direction,
                           !.simulation_state.stage = "stop_loss"],
                 NoCall(su, le),
                 IF direction \notin {"long", "short"}
                 THEN "choose_long_or_short" ELSE "simulation_question_2", <<>>)

(* _set_simulation_direction *)
SetSimulationDirection(s, direction, su, le) ==
    IF s.simulation_state = None
    THEN Handled(s, NoCall(su, le), "no_active_simulation", <<>>)
    ELSE IF s.simulation_state.stage # "direction"
    THEN Handled(s, NoCall(su, le), "direction_already_set", <<>>)
    ELSE IF direction \notin {"long", "short"}
    THEN Handled(s, NoCall(su, le), "choose_long_or_short", <<>>)
    ELSE Handled([s EXCEPT !.simulation_state.direction = direction,
                           !.simulation_state.stage = "stop_loss"],
                 NoCall(su, le), "simulation_question_2", <<>>)

(* A text message, by what the handlers read from it:                      *)
(*   unrealistic  is_unrealistic_request(text)                             *)
(*   complete     the text is one of the completion words                  *)
(*   option       _extract_option(text), "" for None                       *)
(*   mentions     "long" | "short" | "" (which of the two it contains,     *)
(*                "long" first)                                            *)
(*   has_number, number   _extract_number(text), in hundredths             *)
(*   words        len(text.split())                                        *)
(*   hits         how many of ANALYSIS_WORDS, the first ones, occur in     *)
(*                text.lower()                                             *)
(*   intent       "frustration" | "lesson" | "simulate" | "challenge" | "" *)
(*                (the keyword tests at the end of text_message_handler)   *)
Text(unrealistic, complete, option, mentions, has_number, number, words, hits, intent) ==
    [unrealistic |-> unrealistic, complete |-> complete, option |-> option,
     mentions |-> mentions, has_number |-> has_number, number |-> number,
     words |-> words, hits |-> hits, intent |-> intent]

(* float(text) for a decimal of two places: the signed distance of the     *)
(* binary64 value from the decimal, in units of 1/(100 * 2^46), for the    *)
(* decimals in use; they lie in [64, 128), where binary64 values are       *)
(* 2^-46 apart (90.1 is 0x1.6866666666666p+6, 114.85 is                    *)
(* 0x1.cb66666666666p+6); multiples of 0.25 are exact                      *)
BinaryError(hundredths) ==
    CASE hundredths % 25 = 0 -> 0
      [] hundredths = 9010 -> 0 - 40
      [] hundredths = 11485 -> 0 - 40

(* a float: its decimal in hundredths and its distance from it *)
Float(hundredths) == [hundredths |-> hundredths, error |-> BinaryError(hundredths)]

(* abs(a - b) for two floats of one binade, or two whole numbers: the      *)
(* subtraction is exact                                                    *)
AbsDifference(a, b) ==
    LET hundredths == a.hundredths - b.hundredths
        error == a.error - b.error
    IN  IF hundredths < 0 \/ (hundredths = 0 /\ error < 0)
        THEN [hundredths |-> 0 - hundredths, error |-> 0 - error]
        ELSE [hundredths |-> hundredths, error |-> error]

(* reward / risk < halves / 2 in binary64, halves being 3 or 4: the        *)
(* quotient rounds below the bound exactly when the exact quotient is      *)
(* below bound - 2^-53, that is                                            *)
(*   2^54 * reward < risk * (halves * 2^53 - 2)                            *)
(* with reward = R * 2^46 + r and risk = K * 2^46 + k; the terms in R and  *)
(* K decide unless 2R = halves * K, and then, divided by 2^47,             *)
(*   128 r + K - 64 * halves * k < - k / 2^46                              *)
QuotientBelow(reward, risk, halves) ==
    IF 2 * reward.hundredths # halves * risk.hundredths
    THEN 2 * reward.hundredths < halves * risk.hundredths
    ELSE LET rest == 128 * reward.error + risk.hundredths
                     - 64 * halves * risk.error
         IN  rest < 0 \/ (rest = 0 /\ risk.error < 0)

(* _build_simulation_feedback: what the feedback says of the reward to     *)
(* risk ratio and of the risk taken; with a NaN among the prices the       *)
(* ratio is NaN, which is below neither bound                              *)
BuildSimulationFeedback(state, risk_percent) ==
    LET risk_distance == AbsDifference(Float(state.entry), Float(state.stop_loss))
        reward_distance == AbsDifference(Float(state.take_profit),
                                         Float(state.entry))
        zero_risk == risk_distance.hundredths = 0 /\ risk_distance.error = 0
    IN  [quality |-> IF IsNaN(state.entry) THEN "strong"
                     ELSE IF zero_risk \/ QuotientBelow(reward_distance,
                                                        risk_distance, 3)
                     THEN "poor"
                     ELSE IF QuotientBelow(reward_distance, risk_distance, 4)
                     THEN "acceptable"
                     ELSE "strong",
         oversized |-> risk_percent > 200,
         risk_percent |-> risk_percent]

(* _handle_simulation_answer *)
HandleSimulationAnswer(s, text, su, le) ==
    LET state == s.simulation_state
        value == text.number
        reply(tag) == Handled(s, NoCall(su, le), tag, <<>>)
    IN  IF state.stage = "direction"
        THEN IF text.mentions = "" THEN reply("choose_direction")
             ELSE SetSimulationDirection(s, text.mentions, su, le)
        ELSE IF state.stage = "stop_loss"
        THEN IF ~text.has_number THEN reply("send_numeric_stop")
             ELSE IF state.direction = "long" /\ AtMost(state.entry, value)
             THEN reply("long_stop_must_be_below_entry")
             ELSE IF state.direction = "short" /\ AtMost(value, state.entry)
             THEN reply("short_stop_must_be_above_entry")
             ELSE Handled([s EXCEPT !.simulation_state.stop_loss = value,
                                    !.simulation_state.stage = "take_profit"],
                          NoCall(su, le), "simulation_question_3", <<>>)
        ELSE IF state.stage = "take_profit"
        THEN IF ~text.has_number THEN reply("send_numeric_target")
             ELSE IF state.direction = "long" /\ AtMost(value, state.entry)
             THEN reply("long_target_must_be_above_entry")
             ELSE IF state.direction = "short" /\ AtMost(state.entry, value)
             THEN reply("short_target_must_be_below_entry")
             ELSE Handled([s EXCEPT !.simulation_state.take_profit = value,
                                    !.simulation_state.stage = "risk_percent"],
                          NoCall(su, le), "simulation_question_4", <<>>)
        ELSE IF state.stage = "risk_percent"
        THEN IF ~text.has_number \/ value <= 0 \/ value > 10000
             THEN reply("give_realistic_risk")
             ELSE WithValue(
                      Handled([s EXCEPT !.ai_simulations_completed = @ + 1,
                                        !.simulation_state = None],
                              NoCall(su, le), "simulation_feedback", <<>>),
                      BuildSimulationFeedback(state, value))
        ELSE Handled(s, NoCall(su, le), "none", <<>>)

(* the words of ANALYSIS_WORDS that are substrings of text.lower() *)
Occurring(text) == {ANALYSIS_WORDS[i] : i \in 1..text.hits}

(* sum(1 for keyword in expected_keywords if keyword in lowered) *)
HitCount(expected_keywords, text) ==
    Cardinality({i \in 1..Len(expected_keywords) :
                    expected_keywords[i] \in Occurring(text)})

(* _handle_daily_challenge_answer *)
HandleDailyChallengeAnswer(s, text, su, le) ==
    IF text.words < 8
    THEN Handled(s, NoCall(su, le), "add_more_analysis", <<>>)
    ELSE LET hit_count == HitCount(s.daily_challenge_state.expected_keywords,
                                   text)
         IN  Handled([s EXCEPT !.ai_challenges_completed = @ + 1,
                               !.daily_challenge_state = None],
                     NoCall(su, le),
                     IF hit_count >= 3 THEN "analysis_strong"
                     ELSE IF hit_count = 2 THEN "analysis_adequate"
                     ELSE "analysis_generic",
                     <<>>)

(* _handle_quiz_answer *)
HandleQuizAnswer(s, text, su, le) ==
    IF text.option = ""
    THEN Handled(s, NoCall(su, le), "choose_one_option", <<>>)
    ELSE EvaluateQuizOption(s, text.option, su, le)

(* text_message_handler, for a text that is no button label *)
TextMessageHandler(s, text, api, resp, uuid, resps, target, stream, sim_pick, daily_pick, t, su, le) ==
    IF text.unrealistic THEN Handled(s, NoCall(su, le), "safety_refusal", <<>>)
    ELSE IF text.complete /\ s.pending_lesson # None
    THEN CompletePendingLesson(s, s.pending_lesson.lesson_id, api, resps, target,
                               stream, t, su, le)
    ELSE IF s.quiz_state # None THEN HandleQuizAnswer(s, text, su, le)
    ELSE IF s.simulation_state # None THEN HandleSimulationAnswer(s, text, su, le)
    ELSE IF s.daily_challenge_state # None
    THEN HandleDailyChallengeAnswer(s, text, su, le)
    ELSE IF s.assistant_mode
    THEN IF ~api THEN Handled(s, NoCall(su, le), "ai_service_unavailable", <<>>)
         ELSE LET g == AnswerQuestion(resp, t, su, le)
              IN  IF g.out.fault THEN Handled(s, g.out, "", <<>>)
                  ELSE Handled(s, g.out,
                               IF g.value # None THEN "answer"
                               ELSE "could_not_answer", <<>>)
    ELSE IF text.intent = "frustration"
    THEN Handled(s, NoCall(su, le), "loss_review_checklist", <<>>)
    ELSE IF text.intent = "lesson"
    THEN LessonCommand(s, api, resp, uuid, t, su, le)
    ELSE IF text.intent = "simulate"
    THEN SimulateCommand(s, api, resp, sim_pick, t, su, le)
    ELSE IF text.intent = "challenge"
    THEN DailyChallengeCommand(s, api, resp, daily_pick, t, su, le)
    ELSE Handled(s, NoCall(su, le), "use_the_buttons", <<>>)

(* _set_level_value *)
SetLevelValue(s, level, su, le) ==
    IF level \notin {LEVEL_ORDER[i] : i \in 1..Len(LEVEL_ORDER)}
    THEN Handled(s, NoCall(su, le), "invalid_level", <<>>)
    ELSE Handled([s EXCEPT !.level = level], NoCall(su, le), "level_updated", <<>>)

(* a set-access that grants premium *)
SetAccessValueGranting(s, access, su, le) ==
    IF access \notin {"free", "premium"}
    THEN Handled(s, NoCall(su, le), "invalid_access", <<>>)
    ELSE Handled([s EXCEPT !.access = access], NoCall(su, le), "access_updated", <<>>)

(* _set_access_value *)
SetAccessValue(s, access, su, le) ==
    IF access \notin {"free", "premium"}
    THEN Handled(s, NoCall(su, le), "invalid_access", <<>>)
    ELSE IF access = "premium"
    THEN Handled([s EXCEPT !.access = "free"], NoCall(su, le), "premium_locked", <<>>)
    ELSE Handled([s EXCEPT !.access = access], NoCall(su, le), "access_updated", <<>>)

(* _set_focus_value *)
SetFocusValue(s, focus, su, le) ==
    IF focus \notin {"spot", "futures", "both"}
    THEN Handled(s, NoCall(su, le), "invalid_focus", <<>>)
    ELSE Handled([s EXCEPT !.focus = focus], NoCall(su, le), "focus_updated", <<>>)

(* button_callback_handler, CB_SET_LANGUAGE_PREFIX *)
SetLanguage(s, selected, su, le) ==
    IF selected \notin SUPPORTED_LANGUAGES
    THEN Handled(s, NoCall(su, le), "invalid_language", <<>>)
    ELSE Handled([s EXCEPT !.language = selected], NoCall(su, le),
                 "language_updated", <<>>)


----------------------------------------------------------------------------
(* The state machine: one action per update handled. *)

(* the user whose username is ADMIN_USERNAME *)
ADMIN == "u1"

Session(u) == GetSession(store, u)[u]

Init ==
    /\ store = [u \in Users |-> Absent]
    /\ api_key \in BOOLEAN
    /\ now = 0
    /\ suspend_until = 0
    /\ last_error = ""
    /\ last = [op |-> "", user |-> "", reply |-> "", killed |-> <<>>,
               changed |-> FALSE, call |-> "", net |-> 0, resp |-> None,
               resps |-> <<>>, fault |-> FALSE, args |-> None, value |-> None]
    /\ suspended_by = ""
    /\ quota_until = 0
    /\ events = 0

(* a handler that began with _get_session(update) and ended as `handled`;  *)
(* resp and resps are the upstream responses on offer, recorded when       *)
(* consumed                                                                *)
Do(u, op, handled, resp, resps) ==
    /\ events < MaxEvents
    /\ \E h \in {handled} :
        /\ store' = [GetSession(store, u) EXCEPT ![u] = h.session]
        /\ suspend_until' = h.out.suspend_until
        /\ last_error' = h.out.last_error
        /\ suspended_by' = IF h.out.wrote THEN u ELSE suspended_by
        /\ quota_until' = IF h.out.quota THEN now + COOLDOWN_QUOTA
                          ELSE quota_until
        /\ last' = [op |-> op, user |-> u, reply |-> h.reply,
                    killed |-> h.killed,
                    changed |-> h.session # store[u],
                    call |-> h.out.call, net |-> h.out.net,
                    resp |-> IF h.out.net > 0
                                /\ h.out.call # "generate_lesson_quiz_pack"
                             THEN resp ELSE None,
                    resps |-> IF h.out.call = "generate_lesson_quiz_pack"
                              THEN SubSeq(resps, 1, h.out.net) ELSE <<>>,
                    fault |-> h.out.fault, args |-> None, value |-> h.value]
    /\ events' = events + 1
    /\ UNCHANGED <<api_key, now>>

Askme(u) ==
    Do(u, "askme", AskmeCommand(Session(u), suspend_until, last_error), None, <<>>)

AskmeQuitButton(u) ==
    Do(u, "askme_quit", AskmeQuit(Session(u), suspend_until, last_error), None,
       <<>>)

Kill(u) ==
    Do(u, "kill", KillCommand(Session(u), suspend_until, last_error), None, <<>>)

(* reset_command: the store entry is replaced; _get_session is not called *)
Reset(u) ==
    /\ events < MaxEvents
    /\ store' = StoreReset(store, u)
    /\ last' = [op |-> "reset", user |-> u, reply |-> "session_reset",
                killed |-> <<>>, changed |-> store'[u] # store[u], call |-> "",
                net |-> 0, resp |-> None, resps |-> <<>>, fault |-> FALSE,
                args |-> None, value |-> None]
    /\ events' = events + 1
    /\ UNCHANGED <<api_key, now, suspend_until, last_error, suspended_by,
                   quota_until>>

LessonRequest(u, resp, uuid) ==
    Do(u, "lesson",
       LessonCommand(Session(u), api_key, resp, uuid, now, suspend_until,
                     last_error),
       resp, <<>>)

LessonCompleteButton(u, lesson_id, resps, target, stream) ==
    Do(u, "complete",
       CompletePendingLesson(Session(u), lesson_id, api_key, resps, target,
                             stream, now, suspend_until, last_error),
       None, resps)

QuizButton(u, option) ==
    Do(u, "quiz_button",
       EvaluateQuizOption(Session(u), option, suspend_until, last_error),
       None, <<>>)

SimulationRequest(u, resp, pick) ==
    Do(u, "simulate",
       SimulateCommand(Session(u), api_key, resp, pick, now, suspend_until,
                       last_error),
       resp, <<>>)

SimulationDirectionButton(u, direction) ==
    Do(u, "simdir",
       SetSimulationDirection(Session(u), direction, suspend_until, last_error),
       None, <<>>)

DailyChallengeRequest(u, resp, pick) ==
    Do(u, "daily",
       DailyChallengeCommand(Session(u), api_key, resp, pick, now, suspend_until,
                             last_error),
       resp, <<>>)

TextMessage(u, text, resp, uuid, resps, target, stream, sim_pick, daily_pick) ==
    Do(u, "text",
       TextMessageHandler(Session(u), text, api_key, resp, uuid, resps, target,
                          stream, sim_pick, daily_pick, now, suspend_until,
                          last_error),
       resp, resps)

(* setlevel_command / CB_SET_LEVEL_PREFIX: admin only *)
SetLevel(u, level) ==
    Do(u, "setlevel",
       IF u = ADMIN THEN SetLevelValue(Session(u), level, suspend_until, last_error)
       ELSE Handled(Session(u), NoCall(suspend_until, last_error), "admin_only",
                    <<>>),
       None, <<>>)

(* setaccess_command / CB_SET_ACCESS_PREFIX: admin only *)
SetAccess(u, access) ==
    Do(u, "setaccess",
       IF u = ADMIN
       THEN SetAccessValue(Session(u), access, suspend_until, last_error)
       ELSE Handled(Session(u), NoCall(suspend_until, last_error), "admin_only",
                    <<>>),
       None, <<>>)

(* setfocus_command / CB_SET_FOCUS_PREFIX: admin only *)
SetFocus(u, focus) ==
    Do(u, "setfocus",
       IF u = ADMIN THEN SetFocusValue(Session(u), focus, suspend_until, last_error)
       ELSE Handled(Session(u), NoCall(suspend_until, last_error), "admin_only",
                    <<>>),
       None, <<>>)

LanguageSelect(u, selected) ==
    Do(u, "language", SetLanguage(Session(u), selected, suspend_until, last_error),
       None, <<>>)

(* time passes between two updates *)
Tick ==
    /\ now + TickStep <= MaxTime
    /\ now' = now + TickStep
    /\ UNCHANGED <<store, api_key, suspend_until, last_error, last, suspended_by,
                   quota_until, events>>


----------------------------------------------------------------------------
(* The inputs of one update.  A handler run consumes at most one of: the   *)
(* response to its single request and the uuid drawn (lesson request), the *)
(* response alone (simulation, challenge, question), the responses to the  *)
(* chunk requests (completion of a generated lesson), or the random draws  *)
(* (completion of a curated lesson); the parts it does not consume are     *)
(* held at a default.                                                      *)

Identity == <<1, 2, 3, 4>>

OkContent == HttpOk("ok", "object", TRUE, <<"C", "A">>)
OkNaNEntry == HttpOk("ok", "object_nan_entry", TRUE, <<>>)
OkCapitalKeywords == HttpOk("ok", "object_capital_keywords", TRUE, <<>>)
OkChunk == HttpOk("ok", "object", TRUE, [i \in 1..CHUNK_SIZE |-> "C"])
QuotaExceeded == HttpError(429, ErrorObj(" insufficient_quota ", NotStr, NotStr))

DefaultStream ==
    Stream(<<Draw(1, 0, Identity), Draw(2, 0, Identity)>>,
           Draw(1, 1, <<2, 1, 3, 4>>))

Input(resp, uuid, resps, target, stream) ==
    [resp |-> resp, uuid |-> uuid, resps |-> resps, target |-> target,
     stream |-> stream]

Inputs(responses, ids, chunk_responses, draws) ==
    {Input(r, id, <<OkChunk, OkChunk>>, 2, DefaultStream) :
        r \in responses, id \in ids}
    \cup {Input(OkContent, "AI-1", rs, 2, DefaultStream) : rs \in chunk_responses}
    \cup {Input(OkContent, "AI-1", <<OkChunk, OkChunk>>, d.target, d.stream) :
            d \in draws}

(* the texts users send *)
TextLetter(option) == Text(FALSE, FALSE, option, "", FALSE, 0, 1, 0, "")
TextDirection(mentions) == Text(FALSE, FALSE, "", mentions, FALSE, 0, 1, 0, "")
TextNumber(number) == Text(FALSE, FALSE, "", "", TRUE, number, 1, 0, "")
TextComplete == Text(FALSE, TRUE, "", "", FALSE, 0, 1, 0, "")
TextAnalysis(words, hits) == Text(FALSE, FALSE, "", "", FALSE, 0, words, hits, "")
TextUnrealistic == Text(TRUE, FALSE, "", "", FALSE, 0, 2, 0, "")
TextIntent(intent) == Text(FALSE, FALSE, "", "", FALSE, 0, 2, 0, intent)
TextQuestion == Text(FALSE, FALSE, "", "", FALSE, 0, 5, 0, "")

(* one update of any kind, its inputs drawn from the given sets *)
Update(users, ins, buttons, texts, options, levels) ==
    \/ \E u \in users : Askme(u)
    \/ \E u \in users : AskmeQuitButton(u)
    \/ \E u \in users : Kill(u)
    \/ \E u \in users : Reset(u)
    \/ \E u \in users, in \in ins : LessonRequest(u, in.resp, in.uuid)
    \/ \E u \in users, id \in buttons, in \in ins :
          LessonCompleteButton(u, id, in.resps, in.target, in.stream)
    \/ \E u \in users, option \in options : QuizButton(u, option)
    \/ \E u \in users, in \in ins, pick \in SIMULATION_SCENARIOS :
          SimulationRequest(u, in.resp, pick)
    \/ \E u \in users, direction \in {"long", "short"} :
          SimulationDirectionButton(u, direction)
    \/ \E u \in users, in \in ins, pick \in DAILY_CHALLENGES :
          DailyChallengeRequest(u, in.resp, pick)
    \/ \E u \in users, text \in texts, in \in ins,
          sim_pick \in SIMULATION_SCENARIOS, daily_pick \in DAILY_CHALLENGES :
          TextMessage(u, text, in.resp, in.uuid, in.resps, in.target, in.stream,
                      sim_pick, daily_pick)
    \/ \E u \in users, level \in levels : SetLevel(u, level)
    \/ \E u \in users, access \in {"free", "premium"} : SetAccess(u, access)
    \/ \E u \in users, focus \in {"spot", "expert"} : SetFocus(u, focus)
    \/ \E u \in users, selected \in {"en", "fr"} : LanguageSelect(u, selected)

----------------------------------------------------------------------------
(* Spec: the conversation flows of one user at one instant, against an     *)
(* upstream that answers or times out.  A handler reads and writes only    *)
(* its caller's session and the gateway's two fields, so other users bear  *)
(* on a session through the gateway alone (SpecGateway).                   *)

FlowInputs ==
    Inputs({OkContent, Timeout}, AI_IDS,
           {<<OkChunk, OkChunk>>, <<Timeout, Timeout>>},
           {[target |-> 2, stream |-> DefaultStream],
            [target |-> 3, stream |-> DefaultStream]})

FlowTexts ==
    {TextLetter("B"), TextDirection("long"), TextNumber(9500),
     TextNumber(11000), TextNumber(200), TextComplete, TextAnalysis(10, 3), TextAnalysis(3, 1),
     TextUnrealistic, TextIntent("lesson"), TextIntent("simulate"),
     TextIntent("challenge"), TextIntent("frustration"), TextQuestion}

Next == Update({ADMIN}, FlowInputs, {"", "B1", "AI-1"}, FlowTexts,
               {"B", "D", "x"}, {"intermediate", "expert"})

Spec == Init /\ [][Next]_vars


----------------------------------------------------------------------------
(* The updates whose handlers reach the gateway, with the two that open    *)
(* and close assistant mode.                                               *)
GatewayUpdate(users, ins, texts) ==
    \/ \E u \in users : Askme(u)
    \/ \E u \in users : Kill(u)
    \/ \E u \in users, in \in ins : LessonRequest(u, in.resp, in.uuid)
    \/ \E u \in users, in \in ins :
          LessonCompleteButton(u, "", in.resps, in.target, in.stream)
    \/ \E u \in users, in \in ins, pick \in SIMULATION_SCENARIOS :
          SimulationRequest(u, in.resp, pick)
    \/ \E u \in users, in \in ins, pick \in DAILY_CHALLENGES :
          DailyChallengeRequest(u, in.resp, pick)
    \/ \E u \in users, text \in texts, in \in ins,
          sim_pick \in SIMULATION_SCENARIOS, daily_pick \in DAILY_CHALLENGES :
          TextMessage(u, text, in.resp, in.uuid, in.resps, in.target, in.stream,
                      sim_pick, daily_pick)
    \/ Tick

(* SpecGateway: the gateway's shared cooldown, over two users and passing  *)
(* time.                                                                   *)

GatewayInputs ==
    Inputs({OkContent, Timeout, QuotaExceeded}, {"AI-1"},
           {<<OkChunk, OkChunk>>, <<Timeout, QuotaExceeded>>},
           {[target |-> 2, stream |-> DefaultStream]})

NextGateway == GatewayUpdate(Users, GatewayInputs, {TextQuestion})

SpecGateway == Init /\ [][NextGateway]_vars

(* SpecOutcomes: one user's requests against every class of upstream       *)
(* response.                                                               *)

OutcomeResponses ==
    {Timeout, Transport,
     HttpNonObject(401), HttpNonObject(200),
     HttpError(401, NoError),
     HttpError(403, ErrorObj("invalid_api_key", NotStr, NotStr)),
     QuotaExceeded,
     HttpError(429, ErrorObj(NotStr, "insufficient_quota", NotStr)),
     HttpError(429, ErrorObj(NotStr, NotStr, "Rate limit reached")),
     HttpError(500, ErrorObj("", NotStr, NotStr)),
     HttpError(400, ErrorObj(NotStr, "invalid_request_error", NotStr)),
     HttpOk("missing", "object", TRUE, <<>>),
     HttpOk("bad_item", "object", TRUE, <<>>),
     HttpOk("ok", "", TRUE, <<>>),
     HttpOk("ok", "garbage", TRUE, <<>>),
     HttpOk("ok", "plain", TRUE, <<>>),
     HttpOk("ok", "object", FALSE, <<>>),
     OkContent}

OutcomeChunkResponses ==
    {<<OkChunk, OkChunk>>,
     <<Timeout, Transport>>,
     <<HttpError(401, NoError), QuotaExceeded>>,
     <<HttpError(500, NoError), HttpOk("ok", "", TRUE, <<>>)>>,
     <<HttpOk("ok", "garbage", TRUE, <<>>), HttpOk("ok", "array", FALSE, <<"A">>)>>,
     <<OkChunk, HttpNonObject(401)>>}

OutcomeInputs ==
    Inputs(OutcomeResponses, {"AI-1"}, OutcomeChunkResponses,
           {[target |-> 2, stream |-> DefaultStream]})

NextOutcomes == GatewayUpdate({ADMIN}, OutcomeInputs, {TextQuestion})

SpecOutcomes == Init /\ [][NextOutcomes]_vars

----------------------------------------------------------------------------
(* SpecStore: every kind of update, from two users whose sessions the one  *)
(* session_store holds, against an upstream that answers or times out.     *)

StoreInputs ==
    Inputs({OkContent, Timeout}, {"AI-1"}, {},
           {[target |-> 2, stream |-> DefaultStream]})

StoreTexts == {TextLetter("B"), TextDirection("long"), TextIntent("lesson")}

NextStore == Update(Users, StoreInputs, {"", "B1"}, StoreTexts, {"B"},
                    {"intermediate"})

SpecStore == Init /\ [][NextStore]_vars

----------------------------------------------------------------------------
(* SpecClient: the operations of AIContentClient called on their own, with *)
(* any arguments, against the upstream's responses.                        *)

(* the record of an operation called outside a handler *)
Returned(op, args, g, resps) ==
    [op |-> op, user |-> "", reply |-> "", killed |-> <<>>, changed |-> FALSE,
     call |-> g.out.call, net |-> g.out.net, resp |-> None,
     resps |-> SubSeq(resps, 1, g.out.net), fault |-> g.out.fault,
     args |-> args, value |-> g.value]

(* await client.generate_lesson_quiz_pack(..., quiz_count=quiz_count) *)
QuizPackCall(resps, quiz_count) ==
    /\ events < MaxEvents
    /\ api_key
    /\ \E g \in {GenerateLessonQuizPack(resps, quiz_count, now, suspend_until,
                                         last_error)} :
        /\ suspend_until' = g.out.suspend_until
        /\ last_error' = g.out.last_error
        /\ last' = Returned("quiz_pack", [quiz_count |-> quiz_count], g, resps)
    /\ events' = events + 1
    /\ UNCHANGED <<store, api_key, now, suspended_by, quota_until>>

(* a chunk response carrying n usable questions *)
ChunkOf(n) == HttpOk("ok", "object", TRUE, [i \in 1..n |-> "C"])

ClientChunkResponses ==
    {ChunkOf(0), ChunkOf(1), ChunkOf(CHUNK_SIZE - 1), OkChunk,
     ChunkOf(CHUNK_SIZE + 1), Timeout, HttpError(500, NoError),
     HttpOk("ok", "garbage", TRUE, <<>>), HttpNonObject(200)}

QuizCounts == {0, 1, CHUNK_SIZE, CHUNK_SIZE + 1, AI_QUIZ_PER_LESSON}

(* the values a key of the decoded payload can hold: a string, a list, a   *)
(* number, or nothing (the key is missing or null, data.get gives None)    *)
Str(text) == [type |-> "str", text |-> text]

List(items) == [type |-> "list", items |-> items]

Number == [type |-> "int"]

(* _lang *)
Lang(language) == IF language \in SUPPORTED_LANGUAGES THEN language ELSE "ar"

(* re.sub(r"\s+", " ", value).strip() on the texts the payloads carry *)
Normalized(text) ==
    CASE text \in {"", " ", "  "} -> ""
      [] text = " risk  first " -> "risk first"
      [] OTHER -> text

(* _safe_text *)
SafeText(value, default) ==
    IF value # None /\ value.type = "str" /\ Normalized(value.text) # ""
    THEN Normalized(value.text)
    ELSE default

IsText(item) == item # None /\ item.type = "str" /\ Normalized(item.text) # ""

(* _safe_list_of_text *)
SafeListOfText(value, fallback_count) ==
    IF value # None /\ value.type = "list"
    THEN LET kept == SelectSeq(value.items, IsText)
         IN  [i \in 1..Len(kept) |-> Normalized(kept[i].text)]
    ELSE [i \in 1..fallback_count |-> ""]

(* _fallback_bullets *)
FallbackBullets(language) ==
    IF Lang(language) = "en"
    THEN <<"Define invalidation", "Use small risk", "Avoid revenge trading",
           "Journal executions">>
    ELSE <<"ar invalidation", "ar small risk", "ar no revenge", "ar journal">>

(* the title, objective, bullet points and example _parse_lesson gives the *)
(* Lesson it builds from a payload object                                  *)
ParseLessonText(data, language) ==
    LET lang == Lang(language)
        en == lang = "en"
        listed == SafeListOfText(data.bullet_points, 4)
        bullet_points == IF Len(listed) < 4
                         THEN SubSeq(listed \o FallbackBullets(lang), 1, 4)
                         ELSE listed
    IN  [title |-> SafeText(data.title, IF en THEN "AI Lesson" ELSE "ar lesson"),
         objective |-> SafeText(data.objective,
                                IF en THEN "Build a disciplined process"
                                ELSE "ar objective"),
         bullet_points |-> SubSeq(bullet_points, 1, Min(4, Len(bullet_points))),
         example |-> SafeText(data.example,
                              IF en THEN "Plan the trade before entry"
                              ELSE "ar example")]

(* await client.generate_lesson(..., language=language), the upstream      *)
(* answering with the payload object data                                  *)
LessonCall(data, language) ==
    /\ events < MaxEvents
    /\ api_key
    /\ \E g \in {GenerateLesson(OkContent, "beginner", "AI-1", now,
                                suspend_until, last_error)} :
        /\ suspend_until' = g.out.suspend_until
        /\ last_error' = g.out.last_error
        /\ last' = Returned("generate_lesson",
                            [data |-> data, language |-> language],
                            [g EXCEPT !.value = IF g.value = None THEN None
                                                ELSE ParseLessonText(data, language)],
                            <<OkContent>>)
    /\ events' = events + 1
    /\ UNCHANGED <<store, api_key, now, suspended_by, quota_until>>

PayloadTexts == {None, Number, Str(" "), Str(" risk  first "), Str("text")}

PayloadBullets ==
    {None, Number, Str("one bullet"), List(<<>>),
     List(<<Str("b1")>>),
     List(<<Str("b1"), Str("  "), Number, None, Str(" risk  first ")>>),
     List(<<Str("b1"), Str("b2"), Str("b3"), Str("b4")>>),
     List(<<Str(""), Str("b1"), Str("b2"), Str("b3"), Str("b4"), Str("b5")>>)}

(* non-empty payload objects: a key the object lacks reads as None *)
LessonPayloads ==
    {[title |-> t, objective |-> o, bullet_points |-> b, example |-> e] :
        t \in PayloadTexts, o \in {Str(" "), Str("text")},
        b \in PayloadBullets, e \in {None, Str("an example")}}

Languages == {"ar", "en", "fr"}

(* the keywords _parse_daily_challenge falls back on *)
FallbackKeywords(language) ==
    IF Lang(language) = "en" THEN ANALYSIS_WORDS
    ELSE <<"ar risk", "ar invalidation", "ar structure", "ar confirmation">>

(* prompt.lower().startswith(...) on the prompts the payloads carry *)
MarkedDaily(prompt, language) ==
    \/ prompt = "Daily Challenge: range"
    \/ Lang(language) # "en" /\ prompt = "ar daily challenge: range"

(* the prompt and keywords _parse_daily_challenge gives from a payload     *)
(* object, None when the prompt is blank                                   *)
ParseDailyChallengeText(data, language) ==
    LET prompt == SafeText(data.prompt, "")
        listed == SafeListOfText(data.expected_keywords, 4)
        first == SubSeq(listed, 1, Min(4, Len(listed)))
        keywords == IF Len(first) < 4 THEN FallbackKeywords(language) ELSE first
    IN  IF prompt = "" THEN None
        ELSE [prompt |-> IF MarkedDaily(prompt, language) THEN prompt
                         ELSE IF Lang(language) = "en"
                         THEN "Daily Challenge: " \o prompt
                         ELSE "ar daily challenge: " \o prompt,
              expected_keywords |-> keywords]

(* await client.generate_daily_challenge(..., language=language), the      *)
(* upstream answering with the payload object data                         *)
DailyChallengeCall(data, language) ==
    /\ events < MaxEvents
    /\ api_key
    /\ \E g \in {GenerateDailyChallenge(OkContent, now, suspend_until,
                                         last_error)} :
        /\ suspend_until' = g.out.suspend_until
        /\ last_error' = g.out.last_error
        /\ last' = Returned("generate_daily_challenge",
                            [data |-> data, language |-> language],
                            [g EXCEPT !.value =
                                ParseDailyChallengeText(data, language)],
                            <<OkContent>>)
    /\ events' = events + 1
    /\ UNCHANGED <<store, api_key, now, suspended_by, quota_until>>

(* non-empty payload objects for a daily challenge *)
ChallengePayloads ==
    {[prompt |-> p, expected_keywords |-> k] :
        p \in {None, Str(" "), Str("range"), Str("Daily Challenge: range"),
               Str("ar daily challenge: range")},
        k \in PayloadBullets}

ClientUpdate(chunk_responses, quiz_counts) ==
    \/ \E r1 \in chunk_responses, r2 \in chunk_responses, n \in quiz_counts :
          QuizPackCall(<<r1, r2>>, n)
    \/ \E data \in LessonPayloads, language \in Languages :
          LessonCall(data, language)
    \/ \E data \in ChallengePayloads, language \in Languages :
          DailyChallengeCall(data, language)

NextClient == ClientUpdate(ClientChunkResponses, QuizCounts)

SpecClient == Init /\ [][NextClient]_vars

----------------------------------------------------------------------------
(* SpecGenerator: build_random_quiz_for_lesson called for one user's        *)
(* session and a curated lesson, whatever the random module draws, from a  *)
(* history that is empty, one combination short of the whole bank, or the  *)
(* whole bank.                                                             *)

Orders == {o \in [1..4 -> 1..4] : \A i, j \in 1..4 : o[i] = o[j] => i = j}

(* every signature _build_variant_question can give a lesson's bank *)
AllSignatures(lesson) ==
    {SignatureFromParts(lesson.lesson_id, lesson.quiz[b].prompt, style, order) :
        b \in 1..Len(lesson.quiz), style \in 0..(PROMPT_STYLES - 1),
        order \in Orders}

BankLesson(lesson_id) ==
    CHOOSE l \in {LESSONS[i] : i \in 1..Len(LESSONS)} : l.lesson_id = lesson_id

LastDraw == Draw(2, 6, <<4, 3, 2, 1>>)

Histories(lesson) ==
    {{}, AllSignatures(lesson),
     AllSignatures(lesson)
        \ {BuildVariantQuestion(lesson.quiz[LastDraw.base], lesson,
                                LastDraw).signature}}

InitGenerator ==
    /\ \E history \in Histories(BankLesson("B1")) :
          store = [u \in Users |->
                    IF u = ADMIN
                    THEN [UserSession(u) EXCEPT
                            !.quiz_variant_history["B1"] = history]
                    ELSE Absent]
    /\ api_key \in BOOLEAN
    /\ now = 0
    /\ suspend_until = 0
    /\ last_error = ""
    /\ last = [op |-> "", user |-> "", reply |-> "", killed |-> <<>>,
               changed |-> FALSE, call |-> "", net |-> 0, resp |-> None,
               resps |-> <<>>, fault |-> FALSE, args |-> None, value |-> None]
    /\ suspended_by = ""
    /\ quota_until = 0
    /\ events = 0

(* build_random_quiz_for_lesson(lesson, session), the random module drawing *)
(* target and stream                                                        *)
GeneratorCall(u, lesson_id, target, stream) ==
    /\ events < MaxEvents
    /\ \E built \in {BuildRandomQuizForLesson(
                          BankLesson(lesson_id),
                          Session(u).quiz_variant_history[lesson_id],
                          target, stream)} :
        /\ store' = [GetSession(store, u) EXCEPT
                        ![u].quiz_variant_history[lesson_id] = built.history]
        /\ last' = [op |-> "build_quiz", user |-> u, reply |-> "",
                    killed |-> <<>>, changed |-> store'[u] # store[u],
                    call |-> "", net |-> 0, resp |-> None, resps |-> <<>>,
                    fault |-> FALSE,
                    args |-> [lesson_id |-> lesson_id,
                              history |->
                                Session(u).quiz_variant_history[lesson_id],
                              target |-> target],
                    value |-> built]
    /\ events' = events + 1
    /\ UNCHANGED <<api_key, now, suspend_until, last_error, suspended_by,
                   quota_until>>

GeneratorStreams ==
    {DefaultStream,
     Stream(<<LastDraw, LastDraw, Draw(1, 6, <<2, 3, 4, 1>>)>>,
            Draw(2, 5, <<1, 3, 2, 4>>)),
     Refilled(Stream(<<Draw(2, 3, <<3, 4, 1, 2>>), Draw(1, 3, <<3, 4, 1, 2>>),
                       Draw(1, 2, <<4, 1, 2, 3>>)>>,
                     Draw(1, 4, <<1, 2, 4, 3>>)),
              <<Draw(2, 1, <<2, 4, 1, 3>>), Draw(2, 1, <<2, 4, 1, 3>>),
                Draw(1, 0, Identity)>>)}

NextGenerator ==
    \/ \E target \in 2..3, stream \in GeneratorStreams :
          GeneratorCall(ADMIN, "B1", target, stream)

SpecGenerator == InitGenerator /\ [][NextGenerator]_vars

----------------------------------------------------------------------------
(* SpecSimulation: the simulation wizard of one user, from a fresh store   *)
(* or from a simulation just opened on the built-in scenario.              *)

InitSimulation ==
    /\ \E opened \in BOOLEAN, pick \in SIMULATION_SCENARIOS :
          store = [u \in Users |->
                    IF u = ADMIN /\ opened
                    THEN [UserSession(u) EXCEPT
                            !.simulation_state = SimulationState(pick, "")]
                    ELSE Absent]
    /\ api_key \in BOOLEAN
    /\ now = 0
    /\ suspend_until = 0
    /\ last_error = ""
    /\ last = [op |-> "", user |-> "", reply |-> "", killed |-> <<>>,
               changed |-> FALSE, call |-> "", net |-> 0, resp |-> None,
               resps |-> <<>>, fault |-> FALSE, args |-> None, value |-> None]
    /\ suspended_by = ""
    /\ quota_until = 0
    /\ events = 0

SimulationTexts ==
    {TextDirection("long"), TextDirection("short"), TextQuestion,
     TextNumber(9500), TextNumber(9010), TextNumber(11000), TextNumber(11485),
     TextNumber(10000), TextNumber(0), TextNumber(150), TextNumber(200),
     TextNumber(300), TextNumber(10025)}

SimulationUpdate(users, ins, texts, directions) ==
    \/ \E u \in users, in \in ins, pick \in SIMULATION_SCENARIOS :
          SimulationRequest(u, in.resp, pick)
    \/ \E u \in users, direction \in directions :
          SimulationDirectionButton(u, direction)
    \/ \E u \in users, text \in texts, in \in ins,
          sim_pick \in SIMULATION_SCENARIOS, daily_pick \in DAILY_CHALLENGES :
          TextMessage(u, text, in.resp, in.uuid, in.resps, in.target, in.stream,
                      sim_pick, daily_pick)

NextSimulation ==
    SimulationUpdate({ADMIN},
                     Inputs({Timeout, OkNaNEntry}, {"AI-1"}, {}, {}),
                     SimulationTexts, {"long", "short", "sideways"})

SpecSimulation == InitSimulation /\ [][NextSimulation]_vars

----------------------------------------------------------------------------
(* SpecCurriculum: lessons and their quizzes for one user who has already  *)
(* completed some number of AI lessons, around the thresholds of the       *)
(* curriculum levels and its end.                                          *)

LessonsCompleted == {0, 23, 24, 25, 48, 49, 73, 74, 75, 98, 99}

(* the session of a user who completed n AI lessons *)
Studied(u, n) ==
    SyncAiCurriculumLevel([UserSession(u) EXCEPT !.ai_lessons_completed = n])

(* the same user after a further AI lesson was generated and completed and *)
(* all but the last two questions of its quiz were answered, score of them *)
(* rightly                                                                 *)
NearQuizEnd(u, n, score) ==
    LET opened == LessonCommand(Studied(u, n), TRUE, OkContent, "AI-1", 0, 0, "")
        started == CompletePendingLesson(opened.session, "AI-1", TRUE,
                                         <<OkChunk, OkChunk>>, 2, DefaultStream,
                                         0, 0, "")
    IN  [started.session EXCEPT
            !.quiz_state.current_index =
                Len(started.session.quiz_state.questions) - 2,
            !.quiz_state.score = score]

InitCurriculum ==
    /\ \E n \in LessonsCompleted, in_quiz \in BOOLEAN :
          store = [u \in Users |->
                    IF u # ADMIN THEN Absent
                    ELSE IF in_quiz THEN NearQuizEnd(u, n, 30)
                    ELSE Studied(u, n)]
    /\ api_key \in BOOLEAN
    /\ now = 0
    /\ suspend_until = 0
    /\ last_error = ""
    /\ last = [op |-> "", user |-> "", reply |-> "", killed |-> <<>>,
               changed |-> FALSE, call |-> "", net |-> 0, resp |-> None,
               resps |-> <<>>, fault |-> FALSE, args |-> None, value |-> None]
    /\ suspended_by = ""
    /\ quota_until = 0
    /\ events = 0

CurriculumUpdate(users, ins, texts, options) ==
    \/ \E u \in users : Kill(u)
    \/ \E u \in users, in \in ins : LessonRequest(u, in.resp, in.uuid)
    \/ \E u \in users, in \in ins :
          LessonCompleteButton(u, "", in.resps, in.target, in.stream)
    \/ \E u \in users, option \in options : QuizButton(u, option)
    \/ \E u \in users, text \in texts, in \in ins,
          sim_pick \in SIMULATION_SCENARIOS, daily_pick \in DAILY_CHALLENGES :
          TextMessage(u, text, in.resp, in.uuid, in.resps, in.target, in.stream,
                      sim_pick, daily_pick)

CurriculumInputs ==
    Inputs({OkContent, Timeout}, {"AI-1"}, {<<Timeout, Timeout>>},
           {[target |-> 2, stream |-> DefaultStream]})

CurriculumTexts == {TextLetter("A"), TextLetter("C"), TextQuestion}

NextCurriculum ==
    CurriculumUpdate({ADMIN}, CurriculumInputs, CurriculumTexts, {"B", "D"})

SpecCurriculum == InitCurriculum /\ [][NextCurriculum]_vars

----------------------------------------------------------------------------
(* SpecChallenge: the daily challenge of one user, built in or generated,  *)
(* and the analyses sent in answer.                                        *)

ChallengeUpdate(users, ins, texts) ==
    \/ \E u \in users : Kill(u)
    \/ \E u \in users, in \in ins, pick \in DAILY_CHALLENGES :
          DailyChallengeRequest(u, in.resp, pick)
    \/ \E u \in users, text \in texts, in \in ins,
          sim_pick \in SIMULATION_SCENARIOS, daily_pick \in DAILY_CHALLENGES :
          TextMessage(u, text, in.resp, in.uuid, in.resps, in.target, in.stream,
                      sim_pick, daily_pick)

ChallengeInputs ==
    Inputs({OkContent, OkCapitalKeywords, Timeout}, {"AI-1"}, {}, {})

ChallengeTexts ==
    {TextAnalysis(3, 1), TextAnalysis(8, 0), TextAnalysis(8, 1),
     TextAnalysis(9, 2), TextAnalysis(10, 3), TextAnalysis(12, 4)}

NextChallenge == ChallengeUpdate({ADMIN}, ChallengeInputs, ChallengeTexts)

SpecChallenge == Init /\ [][NextChallenge]_vars

----------------------------------------------------------------------------
(* Properties *)

Handled1 == events' = events + 1

FlowsSet(s) ==
    {f \in {"lesson", "quiz", "simulation", "daily challenge"} :
        \/ f = "lesson" /\ s.pending_lesson # None
        \/ f = "quiz" /\ s.quiz_state # None
        \/ f = "simulation" /\ s.simulation_state # None
        \/ f = "daily challenge" /\ s.daily_challenge_state # None}

Sessions == {store[u] : u \in {v \in Users : store[v] # Absent}}

(* C1: in every reachable session state at most one of pending_lesson,     *)
(* quiz_state, simulation_state and daily_challenge_state is set.          *)
C1_SingleActiveFlow == \A s \in Sessions : Cardinality(FlowsSet(s)) <= 1

(* C2: in every reachable session state assistant_mode is true only when   *)
(* none of the four flow states is set.                                    *)
C2_AssistantModeExcludesFlows ==
    \A s \in Sessions : s.assistant_mode => FlowsSet(s) = {}

(* C3: a lesson request handled while pending_lesson is set is refused and *)
(* leaves every field of the session as it was.                            *)
C3_RefusedLessonRequestKeepsSession ==
    [][(/\ Handled1
        /\ last'.op = "lesson"
        /\ store[last'.user] # Absent
        /\ store[last'.user].pending_lesson # None)
       => (/\ last'.reply = "lesson_already_open"
           /\ store'[last'.user] = store[last'.user])]_vars

(* C4: kill leaves the four flow states unset and assistant_mode false,    *)
(* and the list it reports has one entry for exactly each of the five that *)
(* was set before it (the empty list when none was).                       *)
C4_KillClearsAndReports ==
    [][(Handled1 /\ last'.op = "kill")
       => LET before == Session(last'.user)
              after == store'[last'.user]
              was == FlowsSet(before)
                     \cup (IF before.assistant_mode THEN {"AI assistant"} ELSE {})
              killed == last'.killed
          IN  /\ FlowsSet(after) = {}
              /\ ~after.assistant_mode
              /\ {killed[i] : i \in 1..Len(killed)} = was
              /\ Len(killed) = Cardinality(was)]_vars

(* a kill that cancelled a flow and assistant mode together *)
C4_Witness ==
    /\ last.op = "kill"
    /\ Len(last.killed) >= 2
    /\ last.killed[Len(last.killed)] = "AI assistant"
    /\ FlowsSet(store[last.user]) = {}
    /\ ~store[last.user].assistant_mode

(* C5: reset replaces the user's session with a fresh default record:      *)
(* level beginner, access free, focus both, language ar, assistant_mode    *)
(* false, empty completed_lessons and quiz_variant_history, empty recent-  *)
(* content memory, the three AI counters zero and no flow state set.       *)
C5_ResetGivesFreshSession ==
    [][(Handled1 /\ last'.op = "reset")
       => LET s == store'[last'.user]
          IN  /\ s.user_id = last'.user
              /\ s.level = "beginner"
              /\ s.access = "free"
              /\ s.focus = "both"
              /\ s.language = "ar"
              /\ ~s.assistant_mode
              /\ s.completed_lessons = {}
              /\ \A id \in STATIC_IDS : s.quiz_variant_history[id] = {}
              /\ s.ai_recent_lesson_titles = <<>>
              /\ s.ai_recent_quiz_prompts = <<>>
              /\ s.ai_lessons_completed = 0
              /\ s.ai_simulations_completed = 0
              /\ s.ai_challenges_completed = 0
              /\ FlowsSet(s) = {}]_vars

(* a reset that discarded a session two earlier updates had altered *)
C5_Witness ==
    /\ last.op = "reset"
    /\ last.changed
    /\ events >= 3
    /\ store[last.user] = UserSession(last.user)


GatedCalls == {"generate_lesson", "generate_simulation", "generate_daily_challenge"}

(* what a session holds after the named operation came back unavailable:   *)
(* nothing generated, only what the built-in bank serves                   *)
ServedFromBank(s, call) ==
    CASE call = "generate_lesson" ->
            s.pending_lesson = None \/ s.pending_lesson.lesson_id \in STATIC_IDS
      [] call = "generate_simulation" ->
            /\ s.simulation_state # None
            /\ s.simulation_state.symbol \in {c.symbol : c \in SIMULATION_SCENARIOS}
      [] call = "generate_daily_challenge" ->
            /\ s.daily_challenge_state # None
            /\ s.daily_challenge_state.prompt \in {c.prompt : c \in DAILY_CHALLENGES}

(* C6: while now < suspend_until, generate_lesson, generate_simulation and *)
(* generate_daily_challenge, invoked for any user, return unavailable      *)
(* without a network call and without changing suspend_until or            *)
(* last_error, whichever user's request set the suspension.                *)
C6_GatedRequestsShortCircuit ==
    [][(Handled1 /\ last'.call \in GatedCalls /\ now < suspend_until)
       => (/\ last'.net = 0
           /\ suspend_until' = suspend_until
           /\ last_error' = last_error
           /\ ServedFromBank(store'[last'.user], last'.call))]_vars

(* a request short-circuited by a suspension another user's request set *)
C6_Witness ==
    /\ last.call \in GatedCalls
    /\ last.net = 0
    /\ now < suspend_until
    /\ suspended_by \notin {"", last.user}
    /\ ServedFromBank(store[last.user], last.call)

(* C7: answer_question invoked while now < suspend_until is refused        *)
(* without a network call.                                                 *)
C7_AnswerQuestionGated ==
    [][(Handled1 /\ last'.call = "answer_question" /\ now < suspend_until)
       => last'.net = 0]_vars

IsQuotaExceeded(resp) ==
    /\ resp # None
    /\ resp.kind = "http"
    /\ resp.status = 429
    /\ resp.body = "object"
    /\ ExtractErrorCode(resp.error) = "insufficient_quota"

(* C8: a gated request answered 429 insufficient_quota at time t sets      *)
(* suspend_until to t + 1800, and every gated request issued before        *)
(* t + 1800 short-circuits without a network call, whatever other gateway  *)
(* operations complete in between.                                         *)
C8_QuotaWindowHolds ==
    [][(Handled1 /\ last'.call \in GatedCalls)
       => (/\ (last'.net = 1 /\ IsQuotaExceeded(last'.resp))
                 => suspend_until' = now + COOLDOWN_QUOTA
           /\ now < quota_until => last'.net = 0)]_vars


(* the error code the table names for an HTTP error response *)
TableCode(resp) ==
    LET extracted == IF resp.body = "object" THEN ExtractErrorCode(resp.error)
                     ELSE ""
    IN  IF extracted # "" THEN extracted ELSE HttpLabel(resp.status)

(* the row of the outcome table for a response, against the fields after   *)
(* the request (le, su) and suspend_until before it (su0), at time t; an    *)
(* error status in an envelope that is not an object may also be taken as   *)
(* a malformed envelope; a 2xx envelope of the wrong shape is left open     *)
TableRow(resp, t, su0, le, su) ==
    IF resp.kind = "timeout" THEN le = "timeout" /\ su = t + 20
    ELSE IF resp.kind = "transport" THEN le = "network_error" /\ su = t + 60
    ELSE IF resp.status >= 400
    THEN \/ /\ le = TableCode(resp)
            /\ su = t + (IF resp.status \in {401, 403} THEN 300
                         ELSE IF resp.status = 429
                         THEN IF le = "insufficient_quota" THEN 1800 ELSE 120
                         ELSE 60)
         \/ resp.body = "nonobject" /\ le = "network_error" /\ su = t + 60
    ELSE IF resp.body = "nonobject" \/ resp.choices \notin {"missing", "ok"}
    THEN TRUE
    ELSE IF resp.choices = "missing" \/ resp.content = ""
    THEN le = "empty_content" /\ su = su0
    ELSE IF resp.content = "garbage" THEN le = "invalid_json" /\ su = su0
    ELSE le = "" /\ su = su0

(* C9: a gated request that reaches the network sets last_error and the    *)
(* cooldown as the outcome table says: timeout 20, transport failure 60,   *)
(* 401/403 300, 429 insufficient_quota 1800, other 429 120, other status   *)
(* >= 400 60; empty_content, invalid_json and success leave suspend_until  *)
(* unchanged, success clearing last_error.                                 *)
C9_OutcomeTable ==
    [][(Handled1 /\ last'.call \in GatedCalls /\ last'.net = 1)
       => TableRow(last'.resp, now, suspend_until, last_error',
                   suspend_until')]_vars

(* the questions a chunk answered by resp adds to the pack *)
Contribution(resp, chunk_target) ==
    IF /\ resp.kind = "http"
       /\ resp.body = "object"
       /\ resp.status < 400
       /\ resp.choices = "ok"
       /\ resp.content \in {"object", "array"}
    THEN Min(chunk_target, Len(resp.quiz))
    ELSE 0

(* C10: each chunk fetch of a quiz pack issues its request even while      *)
(* now < suspend_until, no outcome of it changes suspend_until, and a      *)
(* failed chunk only contributes zero questions to the quiz that starts.   *)
C10_ChunkFetchExempt ==
    [][(Handled1 /\ last'.call = "generate_lesson_quiz_pack")
       => LET quiz == store'[last'.user].quiz_state
          IN  /\ suspend_until' = suspend_until
              /\ last'.net = 2
              /\ quiz # None
              /\ Cardinality({i \in 1..Len(quiz.questions) :
                                 quiz.questions[i].prompt.src = "ai"})
                    = Contribution(last'.resps[1], CHUNK_SIZE)
                      + Contribution(last'.resps[2], CHUNK_SIZE)]_vars

(* the questions _parse_quiz keeps of a chunk answered by resp, cut to the  *)
(* chunk's target                                                           *)
ChunkQuestions(resp, chunk_target) ==
    SubSeq(ParseQuiz(IF Contribution(resp, chunk_target) > 0 THEN resp.quiz
                     ELSE <<>>),
           1, Contribution(resp, chunk_target))

(* the pack the chunks' questions and the fallback bank make up *)
RECURSIVE ExpectedPack(_, _, _, _)
ExpectedPack(resps, chunk_index, quiz_count, merged) ==
    IF chunk_index * CHUNK_SIZE >= quiz_count
    THEN merged \o [k \in 1..(quiz_count - Len(merged)) |->
                      LET base == FallbackQuiz[((k - 1) % Len(FallbackQuiz)) + 1]
                      IN  QuizQuestion(Prompt("fallback", base.prompt.n, 0,
                                              Len(merged) + k),
                                       base.options, base.answer,
                                       base.explanation)]
    ELSE ExpectedPack(resps, chunk_index + 1, quiz_count,
                      merged \o ChunkQuestions(
                                   resps[chunk_index + 1],
                                   Min(CHUNK_SIZE,
                                       quiz_count - chunk_index * CHUNK_SIZE)))

(* C11: generate_lesson_quiz_pack with quiz_count > 0 returns exactly      *)
(* quiz_count questions for every combination of chunk outcomes: each      *)
(* chunk's questions cut to its target, in chunk order, then fallback      *)
(* padding up to quiz_count.                                               *)
C11_PackHasQuizCount ==
    [][(Handled1 /\ last'.op = "quiz_pack" /\ last'.args.quiz_count > 0)
       => (/\ ~last'.fault
           /\ Len(last'.value) = last'.args.quiz_count
           /\ last'.value = ExpectedPack(last'.resps, 0,
                                         last'.args.quiz_count, <<>>))]_vars

(* C12: every gateway operation that reaches the network ends by returning *)
(* to the handler that called it, whatever the response: no exception      *)
(* leaves the operation for the calling state machine.                     *)
C12_NoFaultPropagates ==
    [][(Handled1 /\ last'.call # "" /\ last'.net > 0) => ~last'.fault]_vars

(* the signature of a question build_random_quiz_for_lesson returned, read *)
(* off its prompt and the order of its options                             *)
SignatureOf(question, lesson) ==
    LET base == lesson.quiz[question.prompt.n]
    IN  SignatureFromParts(
            lesson.lesson_id, base.prompt, question.prompt.style,
            [i \in 1..4 |->
                CHOOSE k \in 1..4 : base.options[k] = question.options[i]])

(* C13: no question the generator returns has a signature that was in the  *)
(* user's history for the lesson when the call began, unless every         *)
(* combination of the lesson's bank was already in that history.           *)
C13_NoRepeatUntilExhausted ==
    [][(Handled1 /\ last'.op = "build_quiz")
       => LET lesson == BankLesson(last'.args.lesson_id)
              questions == last'.value.questions
          IN  \/ AllSignatures(lesson) \subseteq last'.args.history
              \/ \A i \in 1..Len(questions) :
                    SignatureOf(questions[i], lesson)
                        \notin last'.args.history]_vars

(* C14: every question the generator returns has the four keys A to D      *)
(* holding a permutation of the base question's four option texts, and its *)
(* answer is one of those keys, holding the base question's correct text.  *)
C14_OptionsPermutedAnswerTracked ==
    [][(Handled1 /\ last'.op = "build_quiz")
       => LET lesson == BankLesson(last'.args.lesson_id)
              questions == last'.value.questions
          IN  \A i \in 1..Len(questions) :
                LET q == questions[i]
                    base == lesson.quiz[q.prompt.n]
                IN  /\ DOMAIN q.options = 1..Len(OPTION_KEYS)
                    /\ \E order \in Orders :
                          q.options = [k \in 1..4 |-> base.options[order[k]]]
                    /\ q.answer \in {OPTION_KEYS[k] : k \in 1..4}
                    /\ q.options[KeyIndex(q.answer)]
                          = base.options[KeyIndex(base.answer)]]_vars

(* a returned question whose options were moved and whose answer key       *)
(* moved with the correct text                                             *)
C14_Witness ==
    /\ last.op = "build_quiz"
    /\ \E i \in 1..Len(last.value.questions) :
          LET q == last.value.questions[i]
              base == BankLesson(last.args.lesson_id).quiz[q.prompt.n]
          IN  /\ q.options # base.options
              /\ q.answer # base.answer
              /\ q.options[KeyIndex(q.answer)]
                    = base.options[KeyIndex(base.answer)]

(* C15: every call of the generator on a non-empty bank ends within 600    *)
(* attempts and returns between one and three questions; when the history  *)
(* already holds every combination of the bank it is cleared and refilled  *)
(* with the signatures emitted.                                            *)
C15_GeneratorTerminatesNonEmpty ==
    [][(Handled1 /\ last'.op = "build_quiz")
       => LET lesson == BankLesson(last'.args.lesson_id)
              built == last'.value
          IN  /\ built.attempts <= 2 * MAX_ATTEMPTS
              /\ Len(built.questions) \in 1..3
              /\ AllSignatures(lesson) \subseteq last'.args.history
                    => /\ built.cleared
                       /\ built.history
                            = {SignatureOf(built.questions[i], lesson) :
                                 i \in 1..Len(built.questions)}
                       /\ store'[last'.user]
                            .quiz_variant_history[last'.args.lesson_id]
                            = built.history]_vars

(* a call that began with the whole bank in the history *)
C15_Witness ==
    /\ last.op = "build_quiz"
    /\ AllSignatures(BankLesson(last.args.lesson_id)) \subseteq last.args.history
    /\ last.value.cleared
    /\ last.value.attempts > MAX_ATTEMPTS
    /\ Len(last.value.questions) >= 2

(* C16: on completing stage 4 of the simulation wizard,                    *)
(* rr = |take_profit - entry| / |entry - stop_loss| is called poor when    *)
(* rr < 1.5, acceptable when 1.5 <= rr < 2.0 and strong when rr >= 2.0,    *)
(* and the risk is flagged oversized exactly when risk_percent > 2.0.      *)
C16_FeedbackClassifiesRatio ==
    [][(Handled1 /\ last'.reply = "simulation_feedback")
       => LET state == store[last'.user].simulation_state
              reward == IF state.take_profit >= state.entry
                        THEN state.take_profit - state.entry
                        ELSE state.entry - state.take_profit
              risk == IF state.entry >= state.stop_loss
                      THEN state.entry - state.stop_loss
                      ELSE state.stop_loss - state.entry
          IN  /\ last'.value.quality =
                    IF 2 * reward < 3 * risk THEN "poor"
                    ELSE IF reward < 2 * risk THEN "acceptable"
                    ELSE "strong"
              /\ last'.value.oversized <=> last'.value.risk_percent > 200]_vars

(* the replies that turn a simulation input down *)
RejectedSimulationInput ==
    {"choose_direction", "choose_long_or_short", "send_numeric_stop",
     "long_stop_must_be_below_entry", "short_stop_must_be_above_entry",
     "send_numeric_target", "long_target_must_be_above_entry",
     "short_target_must_be_below_entry", "give_realistic_risk"}

(* C17: a simulation input turned down at any stage (direction not         *)
(* recognised, no number, stop-loss or take-profit on the wrong side of    *)
(* entry, risk percent outside (0, 100]) leaves the simulation's stage,    *)
(* direction, stop-loss and take-profit, and every other field of the      *)
(* session, as they were.                                                  *)
C17_RejectedInputKeepsSession ==
    [][(Handled1 /\ last'.reply \in RejectedSimulationInput)
       => (/\ store[last'.user] # Absent
           /\ store[last'.user].simulation_state # None
           /\ store'[last'.user] = store[last'.user])]_vars

(* a risk percent turned down at stage 4, the three earlier answers kept *)
C17_Witness ==
    /\ last.reply = "give_realistic_risk"
    /\ ~last.changed
    /\ LET state == store[last.user].simulation_state
       IN  /\ state.stage = "risk_percent"
           /\ state.direction = "long"
           /\ state.stop_loss = 9500
           /\ state.take_profit = 11000

(* the non-blank bullets a payload supplies, in order *)
SuppliedBullets(field) ==
    IF field # None /\ field.type = "list"
    THEN LET kept == SelectSeq(field.items, IsText)
         IN  [i \in 1..Len(kept) |-> Normalized(kept[i].text)]
    ELSE <<>>

(* C19: for both supported languages and every non-empty payload object,   *)
(* generate_lesson returns a Lesson with exactly 4 bullet points, none     *)
(* blank: the supplied non-blank bullets in order, completed from the      *)
(* fallback bullets when fewer than 4 are supplied or the field is missing *)
(* or not a list; its title, objective and example are not blank.          *)
C19_LessonFourBulletsNonBlank ==
    (last.op = "generate_lesson" /\ last.args.language \in SUPPORTED_LANGUAGES)
    => /\ last.value # None
       /\ Len(last.value.bullet_points) = 4
       /\ \A i \in 1..4 : last.value.bullet_points[i] # ""
       /\ last.value.bullet_points =
             SubSeq(SuppliedBullets(last.args.data.bullet_points)
                      \o FallbackBullets(last.args.language), 1, 4)
       /\ last.value.title # ""
       /\ last.value.objective # ""
       /\ last.value.example # ""

(* the same, for the payloads whose bullet_points field is a list *)
C19_ListedBullets ==
    (last.op = "generate_lesson" /\ last.args.data.bullet_points # None
        /\ last.args.data.bullet_points.type = "list")
    => C19_LessonFourBulletsNonBlank

(* a lesson completed from the fallback bullets after two supplied ones *)
C19_Padded ==
    /\ last.op = "generate_lesson"
    /\ last.value # None
    /\ last.value.bullet_points =
          <<"b1", "risk first", "Define invalidation", "Use small risk">>
    /\ last.value.title = "AI Lesson"

(* what a record keeps from one access to the next: its user, its focus   *)
(* and language unless set anew, and the progress that only grows (the    *)
(* level follows the curriculum, _sync_ai_curriculum_level)               *)
KeptFrom(before, after) ==
    /\ after.user_id = before.user_id
    /\ before.completed_lessons \subseteq after.completed_lessons
    /\ \A id \in STATIC_IDS :
          before.quiz_variant_history[id] = {}
          \/ after.quiz_variant_history[id] # {}
    /\ after.ai_simulations_completed >= before.ai_simulations_completed
    /\ after.ai_challenges_completed >= before.ai_challenges_completed
    /\ (last'.op # "setfocus" => after.focus = before.focus)
    /\ (last'.op # "language" => after.language = before.language)

(* C20: the store creates a user's record on first access and gives that   *)
(* same record on every later access until a reset, which replaces it by a *)
(* new one; handling any update of one user, /kill and /reset included,    *)
(* changes no field of any other user's session.                           *)
C20_RecordPerUserIndependent ==
    [][events' # events =>
         \A u \in Users :
            IF u # last'.user THEN store'[u] = store[u]
            ELSE /\ store'[u] # Absent
                 /\ IF last'.op = "reset" THEN store'[u] = UserSession(u)
                    ELSE KeptFrom(IF store[u] = Absent THEN UserSession(u)
                                  ELSE store[u], store'[u])]_vars

(* the administrator's record, its focus set and a lesson pending, after   *)
(* the other user's first update created theirs                            *)
C20_Witness ==
    /\ last.user = "u2"
    /\ last.op \in {"kill", "reset"}
    /\ store["u2"] = UserSession("u2")
    /\ store[ADMIN] # Absent
    /\ store[ADMIN].focus = "spot"
    /\ store[ADMIN].pending_lesson # None

(* the acting user's session as the handler found it *)
Before == IF store[last'.user] = Absent THEN UserSession(last'.user)
          ELSE store[last'.user]

(* C21: a lesson request handled while quiz_state or pending_lesson is set *)
(* makes no gateway call and leaves pending_lesson and quiz_state as they  *)
(* were; a lesson becomes pending only from a state where neither is set.  *)
C21_LessonRefusedWhileBusy ==
    [][Handled1 =>
        /\ (last'.op = "lesson"
              /\ (Before.pending_lesson # None \/ Before.quiz_state # None))
           => /\ last'.net = 0
              /\ last'.call = ""
              /\ store'[last'.user].pending_lesson = Before.pending_lesson
              /\ store'[last'.user].quiz_state = Before.quiz_state
        /\ (last'.user # ""
              /\ store'[last'.user].pending_lesson # None
              /\ store'[last'.user].pending_lesson # Before.pending_lesson)
           => Before.pending_lesson = None /\ Before.quiz_state = None]_vars

(* a lesson request refused while a quiz is active *)
C21_Witness ==
    /\ last.op = "lesson"
    /\ last.reply = "quiz_active"
    /\ store[ADMIN].quiz_state # None
    /\ store[ADMIN].pending_lesson = None

(* the fields of simulation state a other than those listed are the same  *)
(* in b                                                                   *)
SameBut(a, b, fields) == \A f \in (DOMAIN a) \ fields : b[f] = a[f]

(* one step of the simulation wizard from state a to state b (None when    *)
(* the simulation is over), the feedback given being feedback              *)
WizardStep(a, b, feedback) ==
    IF b = None
    THEN /\ a.stage = "risk_percent"
         /\ feedback # None
         /\ feedback.risk_percent > 0
         /\ feedback.risk_percent <= 10000
    ELSE \/ /\ a.stage = "direction"
            /\ b.stage = "stop_loss"
            /\ b.direction \in {"long", "short"}
            /\ SameBut(a, b, {"stage", "direction"})
         \/ /\ a.stage = "stop_loss"
            /\ b.stage = "take_profit"
            /\ SameBut(a, b, {"stage", "stop_loss"})
            /\ (a.direction = "long" => Less(b.stop_loss, a.entry))
            /\ (a.direction = "short" => Less(a.entry, b.stop_loss))
         \/ /\ a.stage = "take_profit"
            /\ b.stage = "risk_percent"
            /\ SameBut(a, b, {"stage", "take_profit"})
            /\ (a.direction = "long" => Less(a.entry, b.take_profit))
            /\ (a.direction = "short" => Less(b.take_profit, a.entry))

(* what one update did to a user's simulation: nothing, or one step *)
WizardKept(a, b, feedback) ==
    IF b.simulation_state # None
       /\ b.simulation_state.stage = a.simulation_state.stage
    THEN /\ SameBut(a.simulation_state, b.simulation_state, {})
         /\ b.ai_simulations_completed = a.ai_simulations_completed
    ELSE /\ WizardStep(a.simulation_state, b.simulation_state, feedback)
         /\ b.ai_simulations_completed =
              a.ai_simulations_completed
                + (IF b.simulation_state = None THEN 1 ELSE 0)

WizardMoves ==
    /\ Handled1
    /\ last'.user # ""
    /\ store[last'.user] # Absent
    /\ store[last'.user].simulation_state # None
    /\ last'.op \notin {"kill", "reset"}

C22_NumericEntry ==
    [][(WizardMoves /\ ~IsNaN(store[last'.user].simulation_state.entry))
        => WizardKept(store[last'.user], store'[last'.user], last'.value)]_vars

(* a stop-loss accepted in a long simulation whose entry is NaN *)
C22_NaNEntryStopAccepted ==
    /\ store[ADMIN] # Absent
    /\ store[ADMIN].simulation_state # None
    /\ store[ADMIN].simulation_state.stage = "take_profit"
    /\ IsNaN(store[ADMIN].simulation_state.entry)

(* user u's active quiz after option was evaluated against the current     *)
(* question: one question further, one point more exactly on the answer    *)
(* key; after the last question the quiz is over                           *)
Counted(u, option) ==
    LET q == store[u].quiz_state
        after == store'[u].quiz_state
        question == q.questions[q.current_index + 1]
    IN  IF q.current_index + 1 < Len(q.questions)
        THEN /\ after # None
             /\ after.current_index = q.current_index + 1
             /\ after.score = q.score + (IF option = question.answer THEN 1 ELSE 0)
             /\ after.questions = q.questions
        ELSE after = None

(* C23: while a quiz is active, each submitted option in A..D increases    *)
(* current_index by exactly 1 and score by 1 exactly when the option is    *)
(* the current question's answer key (the last answer ends the quiz); a    *)
(* text with no extractable A..D option changes neither.  A text the       *)
(* safety check refuses is not a submission.                               *)
C23_QuizAnswerCounts ==
    [][\A u \in Users :
         (store[u] # Absent /\ store[u].quiz_state # None) =>
            /\ \A option \in {"A", "B", "C", "D"} :
                  QuizButton(u, option) => Counted(u, option)
            /\ \A text \in FlowTexts, in \in FlowInputs,
                  sim_pick \in SIMULATION_SCENARIOS,
                  daily_pick \in DAILY_CHALLENGES :
                  (/\ ~text.unrealistic
                   /\ ~(text.complete /\ store[u].pending_lesson # None)
                   /\ TextMessage(u, text, in.resp, in.uuid, in.resps,
                                  in.target, in.stream, sim_pick, daily_pick))
                  => IF text.option \in {"A", "B", "C", "D"}
                     THEN Counted(u, text.option)
                     ELSE store'[u].quiz_state = store[u].quiz_state]_vars

(* a quiz one question further and one point up after a button press *)
C23_Witness ==
    /\ last.op = "quiz_button"
    /\ store[ADMIN].quiz_state # None
    /\ store[ADMIN].quiz_state.current_index = 1
    /\ store[ADMIN].quiz_state.score = 1

(* a quiz one question further and no point up after a text answer *)
C23_WitnessText ==
    /\ last.op = "text"
    /\ store[ADMIN].quiz_state # None
    /\ store[ADMIN].quiz_state.current_index = 1
    /\ store[ADMIN].quiz_state.score = 0

(* the level the AI curriculum gives a count of completed lessons *)
LevelFor(count) ==
    IF count < 25 THEN "beginner"
    ELSE IF count < 50 THEN "intermediate"
    ELSE IF count < 75 THEN "advanced"
    ELSE "professional"

(* user u's session after the last question of the active quiz was         *)
(* answered                                                                *)
QuizFinished(u) ==
    LET s == store[u]
        after == store'[u]
        q == s.quiz_state
    IN  /\ after.quiz_state = None
        /\ IF q.is_dynamic
           THEN /\ after.ai_lessons_completed = s.ai_lessons_completed + 1
                /\ after.level = LevelFor(after.ai_lessons_completed)
                /\ after.completed_lessons = s.completed_lessons
           ELSE /\ after.completed_lessons = s.completed_lessons \cup {q.lesson_id}
                /\ after.ai_lessons_completed = s.ai_lessons_completed

AtLastQuestion(u) ==
    /\ store[u] # Absent
    /\ store[u].quiz_state # None
    /\ store[u].quiz_state.current_index + 1 = Len(store[u].quiz_state.questions)

(* C24: when the last question of a quiz is answered quiz_state becomes    *)
(* None; for a dynamic quiz ai_lessons_completed increases by exactly 1    *)
(* and level is set from the new count (below 25 beginner, 25..49          *)
(* intermediate, 50..74 advanced, 75 and above professional); for a static *)
(* quiz the lesson id is added to completed_lessons and                    *)
(* ai_lessons_completed is unchanged.                                      *)
C24_LastAnswerCompletesLesson ==
    [][\A u \in Users :
         AtLastQuestion(u) =>
            /\ \A option \in {"A", "B", "C", "D"} :
                  QuizButton(u, option) => QuizFinished(u)
            /\ \A text \in CurriculumTexts, in \in CurriculumInputs,
                  sim_pick \in SIMULATION_SCENARIOS,
                  daily_pick \in DAILY_CHALLENGES :
                  (/\ text.option \in {"A", "B", "C", "D"}
                   /\ ~text.unrealistic
                   /\ ~(text.complete /\ store[u].pending_lesson # None)
                   /\ TextMessage(u, text, in.resp, in.uuid, in.resps,
                                  in.target, in.stream, sim_pick, daily_pick))
                  => QuizFinished(u)]_vars

(* the 25th AI lesson completed: the level becomes intermediate *)
C24_Witness ==
    /\ last.reply = "ai_quiz_finished"
    /\ store[ADMIN].quiz_state = None
    /\ store[ADMIN].ai_lessons_completed = 25
    /\ store[ADMIN].level = "intermediate"

(* a static lesson completed by its quiz *)
C24_WitnessStatic ==
    /\ last.reply \in {"quiz_finished", "quiz_finished_level_unlocked"}
    /\ store[ADMIN].quiz_state = None
    /\ store[ADMIN].completed_lessons # {}
    /\ store[ADMIN].ai_lessons_completed = 24

(* user u's update is the free text `text`, read as the answer to the      *)
(* active daily challenge                                                  *)
ChallengeAnswered(u, text) ==
    /\ store[u] # Absent
    /\ store[u].daily_challenge_state # None
    /\ store[u].quiz_state = None
    /\ store[u].simulation_state = None
    /\ ~text.unrealistic
    /\ ~(text.complete /\ store[u].pending_lesson # None)
    /\ \E in \in FlowInputs, sim_pick \in SIMULATION_SCENARIOS,
          daily_pick \in DAILY_CHALLENGES :
          TextMessage(u, text, in.resp, in.uuid, in.resps, in.target, in.stream,
                      sim_pick, daily_pick)

(* C25: every free-text answer submitted while a daily challenge is active *)
(* ends with daily_challenge_state unset, whatever its length and its      *)
(* number of keyword hits.                                                 *)
C25_ChallengeAnswerEndsChallenge ==
    [][\A u \in Users, text \in FlowTexts :
         ChallengeAnswered(u, text)
         => store'[u].daily_challenge_state = None]_vars

(* the same, for the answers of at least 8 words *)
C25_LongAnswers ==
    [][\A u \in Users, text \in FlowTexts :
         (text.words >= 8 /\ ChallengeAnswered(u, text))
         => store'[u].daily_challenge_state = None]_vars

(* str.lower of the keywords in use *)
Lowered(keyword) ==
    CASE keyword = "Risk" -> "risk"
      [] keyword = "Invalidation" -> "invalidation"
      [] OTHER -> keyword

(* how many of the expected keywords occur in the text, compared without   *)
(* regard to case                                                          *)
KeywordsFound(expected_keywords, text) ==
    Cardinality({i \in 1..Len(expected_keywords) :
                    Lowered(expected_keywords[i]) \in Occurring(text)})

(* C26: a daily-challenge answer of at least 8 words is scored by the      *)
(* number of the challenge's 4 expected keywords that occur in it as       *)
(* substrings, compared case-insensitively (a keyword with upper-case      *)
(* letters matches its lower-case occurrence): 3 or more gives the strong  *)
(* feedback, exactly 2 the adequate one, 0 or 1 the generic one, and       *)
(* ai_challenges_completed increases by 1.                                 *)
C26_ChallengeScoredByKeywords ==
    [][\A u \in Users, text \in ChallengeTexts :
         (text.words >= 8 /\ ChallengeAnswered(u, text))
         => LET found == KeywordsFound(
                             store[u].daily_challenge_state.expected_keywords,
                             text)
            IN  /\ last'.reply = IF found >= 3 THEN "analysis_strong"
                                 ELSE IF found = 2 THEN "analysis_adequate"
                                 ELSE "analysis_generic"
                /\ store'[u].ai_challenges_completed =
                     store[u].ai_challenges_completed + 1]_vars

(* the same, for the challenges whose keywords are all in lower case *)
C26_LowerCaseKeywords ==
    [][\A u \in Users, text \in ChallengeTexts :
         (/\ text.words >= 8
          /\ ChallengeAnswered(u, text)
          /\ \A i \in 1..4 :
               LET keyword == store[u].daily_challenge_state.expected_keywords[i]
               IN  Lowered(keyword) = keyword)
         => LET found == KeywordsFound(
                             store[u].daily_challenge_state.expected_keywords,
                             text)
            IN  /\ last'.reply = IF found >= 3 THEN "analysis_strong"
                                 ELSE IF found = 2 THEN "analysis_adequate"
                                 ELSE "analysis_generic"
                /\ store'[u].ai_challenges_completed =
                     store[u].ai_challenges_completed + 1]_vars

(* user u's update is the free text `text` *)
TextSent(u, text) ==
    \E in \in FlowInputs, sim_pick \in SIMULATION_SCENARIOS,
       daily_pick \in DAILY_CHALLENGES :
       TextMessage(u, text, in.resp, in.uuid, in.resps, in.target, in.stream,
                   sim_pick, daily_pick)

(* the text went to the free-form question answering of the gateway, or    *)
(* to its refusal when no gateway is configured                            *)
RoutedToQuestions ==
    last'.call = "answer_question" \/ last'.reply = "ai_service_unavailable"

(* C27: while assistant_mode is true every free-text message is routed to  *)
(* the gateway's free-form question answering and assistant_mode is still  *)
(* true after the answer or the failure; it becomes false only by an       *)
(* explicit quit, kill, reset, or a lesson, simulation or daily-challenge  *)
(* request.  A text the safety check refuses is not routed anywhere.       *)
C27_AssistantModeStays ==
    [][\A u \in Users :
         (store[u] # Absent /\ store[u].assistant_mode) =>
            /\ \A text \in FlowTexts :
                  (~text.unrealistic /\ TextSent(u, text))
                  => (RoutedToQuestions /\ store'[u].assistant_mode)
            /\ (Handled1 /\ last'.user = u /\ ~store'[u].assistant_mode)
               => last'.op \in {"askme_quit", "kill", "reset", "lesson",
                                "simulate", "daily"}]_vars

(* the same, for the sessions in which no flow is active *)
C27_NoFlowActive ==
    [][\A u \in Users :
         (store[u] # Absent /\ store[u].assistant_mode
            /\ FlowsSet(store[u]) = {}) =>
            /\ \A text \in FlowTexts :
                  (~text.unrealistic /\ TextSent(u, text))
                  => (RoutedToQuestions /\ store'[u].assistant_mode)
            /\ (Handled1 /\ last'.user = u /\ ~store'[u].assistant_mode)
               => last'.op \in {"askme_quit", "kill", "reset", "lesson",
                                "simulate", "daily"}]_vars

(* user u's session as the next handler finds it *)
Prior(u) == IF store[u] = Absent THEN UserSession(u) ELSE store[u]

(* user u's update is the completion signal for lesson_id *)
CompletionSent(u, lesson_id) ==
    \E in \in FlowInputs :
       LessonCompleteButton(u, lesson_id, in.resps, in.target, in.stream)

(* what the completion signal for lesson_id may do to user u's session *)
CompletionMatches(u, lesson_id) ==
    IF Prior(u).pending_lesson # None
       /\ Prior(u).pending_lesson.lesson_id = lesson_id
    THEN store'[u].pending_lesson = None
    ELSE /\ store'[u] = Prior(u)
         /\ last'.reply \in {"no_active_lesson", "lesson_not_active"}

(* C28: a lesson-completion signal moves the session out of the pending    *)
(* lesson only when a lesson is pending and the signal's lesson id equals  *)
(* the pending lesson's id; a signal with no pending lesson, or with any   *)
(* other id, the empty id included, is refused and leaves the session      *)
(* unchanged.                                                              *)
C28_CompletionNeedsMatchingId ==
    [][\A u \in Users, lesson_id \in {"", "B1", "AI-1", "AI-2"} :
         CompletionSent(u, lesson_id) => CompletionMatches(u, lesson_id)]_vars

(* the same, for the signals that carry an id *)
C28_IdGiven ==
    [][\A u \in Users, lesson_id \in {"B1", "AI-1", "AI-2"} :
         CompletionSent(u, lesson_id) => CompletionMatches(u, lesson_id)]_vars

(* the built-in lessons a session may be served: those of its level that   *)
(* its access opens and it has not completed, by their place in LESSONS    *)
OpenFor(s) ==
    {i \in 1..Len(LESSONS) :
        /\ LESSONS[i].level = s.level
        /\ (~LESSONS[i].premium_only \/ s.access = "premium")
        /\ LESSONS[i].lesson_id \notin s.completed_lessons}

(* the lesson request of user u finds the session s, its level set by the  *)
(* curriculum thresholds, with no lesson pending and no quiz active        *)
FreeForLesson(s) == s.pending_lesson = None /\ s.quiz_state = None

(* what the request leaves pending when the gateway gave no lesson *)
FromStaticBank(u, s) ==
    IF OpenFor(s) = {}
    THEN store'[u].pending_lesson = None
    ELSE /\ store'[u].pending_lesson # None
         /\ \E i \in OpenFor(s) :
               /\ store'[u].pending_lesson = LESSONS[i]
               /\ \A j \in OpenFor(s) : i <= j

StaticFallback(u, resp, uuid, faults) ==
    LET s == SyncAiCurriculumLevel(Prior(u))
        g == GenerateLesson(resp, s.level, uuid, now, suspend_until, last_error)
    IN  (/\ LessonRequest(u, resp, uuid)
         /\ FreeForLesson(s)
         /\ \/ ~api_key
            \/ /\ s.ai_lessons_completed < AI_TOTAL_LESSONS
               /\ g.value = None
               /\ (faults \/ ~g.out.fault))
        => /\ FromStaticBank(u, s)
           /\ store'[u].completed_lessons = s.completed_lessons

(* C29: when the gateway yields no lesson (not configured, suspended, or   *)
(* failing) and neither a lesson is pending nor a quiz active, a lesson    *)
(* request makes pending the first built-in lesson for the session's level *)
(* and access whose id is not in completed_lessons; a completed built-in   *)
(* lesson is never made pending, and when none remains pending_lesson      *)
(* stays unset.                                                            *)
C29_StaticFallbackLesson ==
    [][\A u \in Users, resp \in OutcomeResponses, uuid \in AI_IDS :
          StaticFallback(u, resp, uuid, TRUE)]_vars

(* the same, for the requests the gateway returns from *)
C29_GatewayReturns ==
    [][\A u \in Users, resp \in OutcomeResponses, uuid \in AI_IDS :
          StaticFallback(u, resp, uuid, FALSE)]_vars

(* a built-in lesson was completed and the next request, the gateway       *)
(* failing, found none left to serve                                       *)
C29_NoneLeft ==
    /\ last.op = "lesson"
    /\ last.call = "generate_lesson"
    /\ store[last.user].completed_lessons # {}
    /\ store[last.user].pending_lesson = None
    /\ last.reply = "advanced_intro_done"

(* what status_label says now, in the given language *)
StatusNow(language) == status_label(language, now, suspend_until, last_error)

(* C30: status_label reports temporarily unavailable, with the last error  *)
(* code, in every state where now < suspend_until, and reports available   *)
(* in every state where now >= suspend_until, whatever ungated gateway     *)
(* calls (quiz-pack chunk fetches, free-form answers) completed during the *)
(* suspension.                                                             *)
C30_StatusFollowsSuspension ==
    api_key =>
        \A language \in Languages :
           IF now < suspend_until
           THEN /\ ~StatusNow(language).available
                /\ StatusNow(language).code = last_error
                /\ last_error # ""
           ELSE StatusNow(language).available

(* the label right after a gated request set a suspension *)
C30_AfterGatedRequest ==
    [][(Handled1 /\ last'.call \in GatedCalls /\ now < suspend_until'
        /\ suspend_until' # suspend_until)
       => \A language \in Languages :
             /\ ~status_label(language, now', suspend_until', last_error').available
             /\ status_label(language, now', suspend_until', last_error').code
                   = last_error']_vars

(* the label once the suspension is over *)
C30_AvailableAfterwards ==
    (api_key /\ now >= suspend_until)
       => \A language \in Languages : StatusNow(language).available

(* C31: generate_daily_challenge, for every payload with a non-blank       *)
(* prompt, returns exactly 4 expected keywords, none blank: the first 4    *)
(* non-blank supplied keywords when at least 4 are supplied, and otherwise *)
(* (fewer than 4 supplied, or the field missing or not a list) keywords    *)
(* completed from the fixed localized fallback set; a payload with a blank *)
(* prompt yields None.                                                     *)
C31_ChallengeFourKeywords ==
    (last.op = "generate_daily_challenge"
        /\ last.args.language \in SUPPORTED_LANGUAGES)
    => LET supplied == SuppliedBullets(last.args.data.expected_keywords)
           fallback == FallbackKeywords(last.args.language)
       IN  IF SafeText(last.args.data.prompt, "") = ""
           THEN last.value = None
           ELSE /\ last.value # None
                /\ Len(last.value.expected_keywords) = 4
                /\ \A i \in 1..4 : last.value.expected_keywords[i] # ""
                /\ IF Len(supplied) >= 4
                   THEN last.value.expected_keywords = SubSeq(supplied, 1, 4)
                   ELSE \A i \in 1..4 :
                           last.value.expected_keywords[i] \in
                              {supplied[j] : j \in 1..Len(supplied)}
                              \cup {fallback[j] : j \in 1..4}

(* the same, for the payloads whose expected_keywords field is a list *)
C31_ListedKeywords ==
    (last.op = "generate_daily_challenge"
        /\ last.args.data.expected_keywords # None
        /\ last.args.data.expected_keywords.type = "list")
    => C31_ChallengeFourKeywords

(* the first four of five supplied keywords, under a prompt left as sent *)
C31_FirstFour ==
    /\ last.op = "generate_daily_challenge"
    /\ last.value # None
    /\ last.value.expected_keywords = <<"b1", "b2", "b3", "b4">>
    /\ last.value.prompt = "Daily Challenge: range"

(* what a simulation request of user u may do to the session *)
SimulationStartedOrRefused(u) ==
    IF Prior(u).simulation_state # None
    THEN /\ store'[u].simulation_state = Prior(u).simulation_state
         /\ last'.reply = "simulation_already_active"
    ELSE /\ store'[u].simulation_state # None
         /\ store'[u].simulation_state.stage = "direction"
         /\ store'[u].simulation_state.direction = ""
         /\ store'[u].simulation_state.stop_loss = None
         /\ store'[u].simulation_state.take_profit = None

SimulationRequested(u, responses) ==
    \E resp \in responses, pick \in SIMULATION_SCENARIOS :
       SimulationRequest(u, resp, pick)

(* C32: a simulation request processed while a simulation is active is     *)
(* refused and leaves simulation_state unchanged; processed while none is  *)
(* active it ends, whatever the gateway outcome (validated scenario,       *)
(* failure, suspended, not configured), with simulation_state at stage     *)
(* direction and no direction, stop-loss or take-profit recorded.          *)
C32_SimulationStartsOrIsRefused ==
    [][\A u \in Users :
          SimulationRequested(u, OutcomeResponses)
             => SimulationStartedOrRefused(u)]_vars

(* the same, for the requests the gateway returns from *)
C32_GatewayReturns ==
    [][\A u \in Users :
          SimulationRequested(u,
              {resp \in OutcomeResponses :
                  ~GenerateSimulation(resp, now, suspend_until,
                                      last_error).out.fault})
             => SimulationStartedOrRefused(u)]_vars

(* a second simulation request refused after a direction was chosen *)
C32_Refused ==
    /\ last.reply = "simulation_already_active"
    /\ store[last.user].simulation_state.stage = "stop_loss"

(* C33: after any lesson request, simulation request or daily-challenge    *)
(* request has been processed, whether the flow was started or refused,    *)
(* assistant_mode is false.                                                *)
C33_FlowRequestClearsAssistantMode ==
    [][(Handled1 /\ last'.op \in {"lesson", "simulate", "daily"})
       => ~store'[last'.user].assistant_mode]_vars

(* a simulation request refused, which still changed the session: it       *)
(* cleared assistant mode                                                  *)
C33_Witness ==
    /\ last.op = "simulate"
    /\ last.reply = "simulation_already_active"
    /\ last.changed
    /\ ~store[last.user].assistant_mode

(* C34: ai_lessons_completed never exceeds the AI-curriculum cap of 100:   *)
(* once it has reached 100, a lesson request (the counter only moves where *)
(* a gateway is configured) issues no gateway call and sets no pending     *)
(* lesson.                                                                 *)
C34_CurriculumCapped ==
    [][/\ \A u \in Users :
             store'[u] # Absent
                => store'[u].ai_lessons_completed <= AI_TOTAL_LESSONS
       /\ \A u \in Users :
             (/\ Handled1 /\ last'.op = "lesson" /\ last'.user = u
              /\ api_key
              /\ Prior(u).ai_lessons_completed >= AI_TOTAL_LESSONS)
             => /\ last'.call = ""
                /\ last'.net = 0
                /\ store'[u].pending_lesson = Prior(u).pending_lesson
                /\ store'[u].ai_lessons_completed = AI_TOTAL_LESSONS]_vars

(* the hundredth lesson's quiz was finished and the next lesson request    *)
(* was answered with the end of the curriculum                             *)
C34_Witness ==
    /\ last.op = "lesson"
    /\ last.reply = "ai_curriculum_done"
    /\ last.net = 0
    /\ store[last.user].ai_lessons_completed = AI_TOTAL_LESSONS
    /\ store[last.user].pending_lesson = None
    /\ events >= 3

(* C35: suspend_until never decreases: no outcome of any gateway operation *)
(* (gated request, free-form answer, chunk fetch) sets suspend_until lower *)
(* than it was, so a later failure with a short cooldown cannot shorten a  *)
(* longer suspension already in force.                                     *)
C35_SuspensionNeverShortened ==
    [][suspend_until' >= suspend_until]_vars

(* the same, for every operation but answer_question *)
C35_GatedAndChunks ==
    [][(Handled1 /\ last'.call # "answer_question")
       => suspend_until' >= suspend_until]_vars

(* a lesson request of user u found the session at level intermediate,     *)
(* fewer than 25 AI lessons completed                                      *)
IntermediateWithoutAi(u) ==
    /\ Handled1 /\ last'.op = "lesson" /\ last'.user = u
    /\ Prior(u).level = "intermediate"
    /\ Prior(u).ai_lessons_completed < 25
    /\ Prior(u).pending_lesson = None
    /\ Prior(u).quiz_state = None

(* C36: a level reached without AI lessons persists across lesson          *)
(* requests: with ai_lessons_completed below 25, after the level advanced  *)
(* from beginner to intermediate (every built-in beginner lesson           *)
(* completed, or an admin set-level), the next lesson request keeps the    *)
(* level and, when served from the built-in bank, makes an intermediate    *)
(* lesson pending while one is left.                                       *)
C36_LevelPersists ==
    [][\A u \in Users :
          IntermediateWithoutAi(u)
             => /\ store'[u].level \in {"intermediate", "advanced"}
                /\ (store'[u].pending_lesson # None
                    /\ store'[u].pending_lesson.lesson_id \in STATIC_IDS)
                   => store'[u].pending_lesson.level = "intermediate"]_vars

(* what the request does instead: the level is set back to the one the     *)
(* counter gives                                                           *)
C36_LevelFollowsCounter ==
    [][\A u \in Users :
          IntermediateWithoutAi(u)
             => /\ store'[u].level \in {"beginner", "intermediate"}
                /\ (store'[u].pending_lesson # None
                    /\ store'[u].pending_lesson.lesson_id \in STATIC_IDS)
                   => store'[u].pending_lesson.level = "beginner"]_vars

(* C37: pending_lesson and quiz_state are never both set: a quiz starts    *)
(* only from a lesson completion that has already cleared pending_lesson,  *)
(* and no lesson becomes pending while a quiz is active.                   *)
C37_LessonAndQuizExclusive ==
    \A u \in Users :
       store[u] # Absent
          => ~(store[u].pending_lesson # None /\ store[u].quiz_state # None)

(* a completion has just started a quiz *)
C37_Witness ==
    /\ last.op = "complete"
    /\ last.reply = "quiz_question"
    /\ store[last.user].quiz_state # None
    /\ store[last.user].pending_lesson = None

(* a lesson request was refused during a quiz *)
C37_WitnessRefused ==
    /\ last.op = "lesson"
    /\ last.reply = "quiz_active"
    /\ store[last.user].quiz_state # None
    /\ store[last.user].pending_lesson = None

(* C38: after every processed event the session's access is free: no      *)
(* sequence of events, an admin set-access to premium included, leaves     *)
(* access = premium.                                                       *)
C38_AccessAlwaysFree ==
    \A u \in Users : store[u] # Absent => store[u].access = "free"

(* the admin asked for premium and was told it is locked *)
C38_Witness ==
    /\ last.op = "setaccess"
    /\ last.user = ADMIN
    /\ last.reply = "premium_locked"
    /\ store[ADMIN].access = "free"

(* user u's update completed the pending lesson, a generated one *)
DynamicLessonCompleted(u) ==
    /\ Handled1 /\ last'.user = u /\ last'.op \in {"complete", "text"}
    /\ Prior(u).pending_lesson # None
    /\ StartsWithAI(Prior(u).pending_lesson.lesson_id)
    /\ store'[u].pending_lesson = None

(* the quiz a completed generated lesson starts *)
DynamicQuizStarted(u) ==
    /\ store'[u].quiz_state # None
    /\ store'[u].quiz_state.is_dynamic
    /\ store'[u].quiz_state.lesson_id = Prior(u).pending_lesson.lesson_id
    /\ Len(store'[u].quiz_state.questions) = AI_QUIZ_PER_LESSON
    /\ store'[u].quiz_state.current_index = 0
    /\ store'[u].quiz_state.score = 0
    /\ store'[u].ai_lessons_completed = Prior(u).ai_lessons_completed
    /\ last'.reply = "quiz_question"

(* C39: completing a pending generated (AI-prefixed) lesson always ends    *)
(* with quiz_state set to a dynamic quiz of exactly 50 questions at index  *)
(* 0 and score 0, even when every chunk fetch fails; the branches that     *)
(* fall back to the lesson's own bank or mark the lesson complete without  *)
(* a quiz are not taken, and ai_lessons_completed is not changed at        *)
(* completion.                                                             *)
C39_DynamicCompletionStartsQuiz ==
    [][\A u \in Users : DynamicLessonCompleted(u) => DynamicQuizStarted(u)]_vars

(* the same, for the completions whose quiz pack comes back *)
C39_PackReturns ==
    [][\A u \in Users :
          (DynamicLessonCompleted(u) /\ ~last'.fault) => DynamicQuizStarted(u)]_vars

(* both chunk fetches timed out and the quiz was started all the same *)
C39_AllChunksFailed ==
    /\ last.call = "generate_lesson_quiz_pack"
    /\ last.net = 2
    /\ last.resps = <<Timeout, Timeout>>
    /\ store[last.user].quiz_state # None
    /\ Len(store[last.user].quiz_state.questions) = AI_QUIZ_PER_LESSON

QuizFinishedReplies ==
    {"ai_quiz_finished", "quiz_finished", "quiz_finished_level_unlocked"}

(* a quiz held by a session is well formed *)
QuizWellFormed(q) ==
    /\ Len(q.questions) > 0
    /\ 0 <= q.score
    /\ q.score <= q.current_index
    /\ q.current_index < Len(q.questions)

(* what one update of user u does to an active quiz q: an accepted answer  *)
(* moves it one question on or, at the last question, ends it; nothing     *)
(* else moves it                                                           *)
QuizStep(u, q) ==
    /\ last'.reply \in QuizFinishedReplies
          => /\ store'[u].quiz_state = None
             /\ q.current_index = Len(q.questions) - 1
    /\ store'[u].quiz_state # None
          => /\ store'[u].quiz_state.questions = q.questions
             /\ IF last'.reply = "quiz_question"
                THEN store'[u].quiz_state.current_index = q.current_index + 1
                ELSE store'[u].quiz_state.current_index = q.current_index
    /\ store'[u].quiz_state = None
          => \/ last'.reply \in QuizFinishedReplies
             \/ last'.op \in {"kill", "reset"}

(* C40: whenever quiz_state is set, its question list is not empty and     *)
(* 0 <= score <= current_index < number of questions; a quiz of n          *)
(* questions ends after exactly n accepted answers.                        *)
C40_QuizWellFormed ==
    [][\A u \in Users :
          /\ (store'[u] # Absent /\ store'[u].quiz_state # None)
                => QuizWellFormed(store'[u].quiz_state)
          /\ (Handled1 /\ last'.user = u /\ Prior(u).quiz_state # None)
                => QuizStep(u, Prior(u).quiz_state)]_vars

(* a quiz of two questions ended with the second accepted answer *)
C40_Witness ==
    /\ last.reply \in QuizFinishedReplies
    /\ store[last.user].quiz_state = None
    /\ store[last.user].completed_lessons = {"B1"}
    /\ events = 4

====
